---- MODULE Spec2Model ----
(***************************************************************************)
(* SilentLedger: the on-chain ledger state machine (contract SilentLedger) *)
(* driven by transactions that callers submit and the chain processes one  *)
(* at a time, each either committing or reverting as a whole.              *)
(***************************************************************************)
EXTENDS Integers, Sequences, FiniteSets, TLC

\* ------------------------------------------------------------------ bounds
MaxKeys == 2        \* encrypted inputs each account can produce
MaxTx == 3          \* transactions submitted over one behaviour

\* ------------------------------------------------------------ value domains
Owners == {"alice", "bob"}

Ciphertexts == {"ciphertext:one", "ciphertext:two"}

ContractAddress == "SilentLedger"

\* default value of an eaddress slot that was never written
ZeroHash == [user |-> "", n |-> 0]

\* the handle of the n-th encrypted input built for the contract and `user`
createEncryptedInput(user, n) == [user |-> user, n |-> n]

ExternalHandles == {createEncryptedInput(o, n) : o \in Owners, n \in 1..MaxKeys}

Transactions ==
    [op : {"createLedger", "rotateLedgerKey"}, sender : Owners,
     encryptedKey : ExternalHandles, ciphertext : {""}]
    \cup
    [op : {"storeEntry"}, sender : Owners,
     encryptedKey : {ZeroHash}, ciphertext : Ciphertexts]

\* ------------------------------------------------------------------- state
\* _hasLedger  mapping(address owner => bool)
\* _ledgerKey  mapping(address owner => eaddress)
\* _pouch      mapping(address owner => PouchEntry[])
\* acl         reveal capabilities granted by FHE.allowThis / FHE.allow
\* now         block.timestamp of the latest block
\* pending     transactions submitted and not yet processed
\* receipts    receipts of the processed transactions, in processing order,
\*             each with the competing invocations that were pending beside it
\* journal     the clear keys one owner's ledger has had, for each entry
\*             stored what was encrypted and under which key, and the start
\*             of the authorization behind the latest unlock
\* ui          the state hooks of the LedgerApp component
\* flights     the asynchronous calls of the component that have not returned
\* clock       Date.now(), in days
\* cipherRun   one use of the symmetric cipher: what was encrypted, the wire
\*             string produced, the string handed to decryption, the result
VARIABLES _hasLedger, _ledgerKey, _pouch, acl, now, pending, receipts, cipherRun, journal, ui, flights, clock

vars ==
    <<_hasLedger, _ledgerKey, _pouch, acl, now, pending, receipts, cipherRun, journal,
      ui, flights, clock>>

client == <<ui, flights, clock>>

offChain == <<cipherRun, journal, client>>

chain == <<_hasLedger, _ledgerKey, _pouch, acl, now, pending, receipts>>

storage == <<_hasLedger, _ledgerKey, _pouch, acl>>

\* ----------------------------------------------------------- FHE library
fromExternal(encryptedKey) == encryptedKey

allowThis(grants, key) == grants \cup {<<key, ContractAddress>>}

allow_AnyAccount(grants, key, account) == grants \cup {<<key, a>> : a \in Owners}

allow(grants, key, account) == grants \cup {<<key, account>>}

\* -------------------------------------------------------- contract events
LedgerCreated(owner) == [name |-> "LedgerCreated", owner |-> owner, index |-> 0]

LedgerKeyRotated(owner) == [name |-> "LedgerKeyRotated", owner |-> owner, index |-> 0]

EntryStored(owner, index) == [name |-> "EntryStored", owner |-> owner, index |-> index]

PouchEntry(createdAt, ciphertext) == [createdAt |-> createdAt, ciphertext |-> ciphertext]

\* ------------------------------------------------- outcome of a transaction
\* a revert undoes every effect of the call and leaves no log
Revert(error) ==
    [status |-> error, hasLedger |-> _hasLedger, ledgerKey |-> _ledgerKey,
     pouch |-> _pouch, acl |-> acl, logs |-> <<>>]

Commit(hasLedgerNew, ledgerKeyNew, pouchNew, aclNew, logs) ==
    [status |-> "success", hasLedger |-> hasLedgerNew, ledgerKey |-> ledgerKeyNew,
     pouch |-> pouchNew, acl |-> aclNew, logs |-> logs]

\* ------------------------------------------------ state-changing functions
createLedger_NoExistsCheck(msg_sender, encryptedKey) ==
    LET owner == msg_sender
        key == fromExternal(encryptedKey)
    IN  Commit([_hasLedger EXCEPT ![owner] = TRUE],
               [_ledgerKey EXCEPT ![owner] = key],
               _pouch,
               allow(allowThis(acl, key), key, owner),
               <<LedgerCreated(owner)>>)

createLedger(msg_sender, encryptedKey) ==
    LET owner == msg_sender
        key == fromExternal(encryptedKey)
    IN  IF _hasLedger[owner]
        THEN Revert("LedgerAlreadyExists")
        ELSE Commit([_hasLedger EXCEPT ![owner] = TRUE],
                    [_ledgerKey EXCEPT ![owner] = key],
                    _pouch,
                    allow(allowThis(acl, key), key, owner),
                    <<LedgerCreated(owner)>>)

rotateLedgerKey_NoLedgerCheck(msg_sender, encryptedKey) ==
    LET owner == msg_sender
        key == fromExternal(encryptedKey)
    IN  Commit(_hasLedger,
               [_ledgerKey EXCEPT ![owner] = key],
               _pouch,
               allow(allowThis(acl, key), key, owner),
               <<LedgerKeyRotated(owner)>>)

rotateLedgerKey_KeepsOldKey(msg_sender, encryptedKey) ==
    LET owner == msg_sender
        key == fromExternal(encryptedKey)
    IN  IF ~_hasLedger[owner]
        THEN Revert("LedgerNotFound")
        ELSE Commit(_hasLedger,
                    _ledgerKey,
                    _pouch,
                    allow(allowThis(acl, key), key, owner),
                    <<LedgerKeyRotated(owner)>>)

rotateLedgerKey_ClearsFlag(msg_sender, encryptedKey) ==
    LET owner == msg_sender
        key == fromExternal(encryptedKey)
    IN  IF ~_hasLedger[owner]
        THEN Revert("LedgerNotFound")
        ELSE Commit([_hasLedger EXCEPT ![owner] = FALSE],
                    [_ledgerKey EXCEPT ![owner] = key],
                    _pouch,
                    allow(allowThis(acl, key), key, owner),
                    <<LedgerKeyRotated(owner)>>)

rotateLedgerKey_ResetsPouch(msg_sender, encryptedKey) ==
    LET owner == msg_sender
        key == fromExternal(encryptedKey)
    IN  IF ~_hasLedger[owner]
        THEN Revert("LedgerNotFound")
        ELSE Commit(_hasLedger,
                    [_ledgerKey EXCEPT ![owner] = key],
                    [_pouch EXCEPT ![owner] = <<>>],
                    allow(allowThis(acl, key), key, owner),
                    <<LedgerKeyRotated(owner)>>)

rotateLedgerKey(msg_sender, encryptedKey) ==
    LET owner == msg_sender
        key == fromExternal(encryptedKey)
    IN  IF ~_hasLedger[owner]
        THEN Revert("LedgerNotFound")
        ELSE Commit(_hasLedger,
                    [_ledgerKey EXCEPT ![owner] = key],
                    _pouch,
                    allow(allowThis(acl, key), key, owner),
                    <<LedgerKeyRotated(owner)>>)

storeEntry_NoLedgerCheck(msg_sender, ciphertext, timestamp) ==
    LET owner == msg_sender
        pushed == Append(_pouch[owner], PouchEntry(timestamp, ciphertext))
    IN  Commit(_hasLedger,
               _ledgerKey,
               [_pouch EXCEPT ![owner] = pushed],
               acl,
               <<EntryStored(owner, Len(pushed) - 1)>>)

storeEntry_Unshift(msg_sender, ciphertext, timestamp) ==
    LET owner == msg_sender
        pushed == <<PouchEntry(timestamp, ciphertext)>> \o _pouch[owner]
    IN  IF ~_hasLedger[owner]
        THEN Revert("LedgerNotFound")
        ELSE Commit(_hasLedger,
                    _ledgerKey,
                    [_pouch EXCEPT ![owner] = pushed],
                    acl,
                    <<EntryStored(owner, Len(pushed) - 1)>>)

storeEntry_SharedPouch(msg_sender, ciphertext, timestamp) ==
    LET owner == msg_sender
        pushed == Append(_pouch[owner], PouchEntry(timestamp, ciphertext))
    IN  IF ~_hasLedger[owner]
        THEN Revert("LedgerNotFound")
        ELSE Commit(_hasLedger,
                    _ledgerKey,
                    [o \in Owners |-> Append(_pouch[o], PouchEntry(timestamp, ciphertext))],
                    acl,
                    <<EntryStored(owner, Len(pushed) - 1)>>)

storeEntry_EmitsLength(msg_sender, ciphertext, timestamp) ==
    LET owner == msg_sender
        pushed == Append(_pouch[owner], PouchEntry(timestamp, ciphertext))
    IN  IF ~_hasLedger[owner]
        THEN Revert("LedgerNotFound")
        ELSE Commit(_hasLedger,
                    _ledgerKey,
                    [_pouch EXCEPT ![owner] = pushed],
                    acl,
                    <<EntryStored(owner, Len(pushed))>>)

storeEntry(msg_sender, ciphertext, timestamp) ==
    LET owner == msg_sender
        pushed == Append(_pouch[owner], PouchEntry(timestamp, ciphertext))
    IN  IF ~_hasLedger[owner]
        THEN Revert("LedgerNotFound")
        ELSE Commit(_hasLedger,
                    _ledgerKey,
                    [_pouch EXCEPT ![owner] = pushed],
                    acl,
                    <<EntryStored(owner, Len(pushed) - 1)>>)

\* ----------------------------------------------------------- view functions
Returned(value) == [ok |-> TRUE, error |-> "", value |-> value]

Reverted(error) == [ok |-> FALSE, error |-> error, value |-> <<>>]

hasLedger(owner) == _hasLedger[owner]

getLedgerKey(owner) ==
    IF ~_hasLedger[owner] THEN Reverted("LedgerNotFound")
    ELSE Returned(_ledgerKey[owner])

getEntryCount(owner) == Len(_pouch[owner])

getEntry(owner, index) ==
    IF index >= Len(_pouch[owner]) THEN Reverted("EntryIndexOutOfBounds")
    ELSE LET entry == _pouch[owner][index + 1]
         IN  Returned(<<entry.createdAt, entry.ciphertext>>)

\* a view call carries the caller's address as msg.sender
getLedgerKeyCall_BySender(msg_sender, owner) == getLedgerKey(msg_sender)

getLedgerKeyCall(msg_sender, owner) == getLedgerKey(owner)

\* no plaintext encrypted, no payload handed to decryption yet
NoRun ==
    [stage |-> "idle", plaintext |-> <<>>, addressKey |-> <<>>, iv |-> <<>>,
     produced |-> <<>>, payload |-> <<>>, changed |-> 0, usedKey |-> <<>>,
     result |-> [ok |-> FALSE, error |-> "", value |-> <<>>]]

\* ---------------------------------------------------- LedgerApp state hooks
\* null and undefined: no key, no handle, no plaintext, no error message
NoKey == <<>>

NoHandle == [user |-> "", n |-> -1]

Undefined == <<"undefined">>

NoError == "undefined"

\* the account the wallet is connected with when the component mounts
LedgerOwner == "alice"

\* the component as mounted: the account of useAccount and the initial value
\* of every useState
Mounted ==
    [address |-> LedgerOwner, isCreating |-> FALSE, hasLedger |-> FALSE, encryptedLedgerKey |-> NoHandle, ledgerKeyAddress |-> NoKey,
     entries |-> <<>>, entryCount |-> 0, message |-> <<>>, status |-> "", error |-> "",
     isRefreshing |-> FALSE, isUnlocking |-> FALSE, isStoring |-> FALSE]

\* ------------------------------------------------------------------ actions
Init ==
    /\ _hasLedger = [o \in Owners |-> FALSE]
    /\ _ledgerKey = [o \in Owners |-> ZeroHash]
    /\ _pouch = [o \in Owners |-> <<>>]
    /\ acl = {}
    /\ now = 1
    /\ pending = {}
    /\ receipts = <<>>
    /\ cipherRun = NoRun
    /\ journal = [keys |-> <<>>, written |-> <<>>, validFrom |-> 0, keypairs |-> 0]
    /\ ui = Mounted
    /\ flights = [creates |-> {}, unlocks |-> {}, stores |-> {}, refreshes |-> {}, batches |-> {}]
    /\ clock = 0

\* a caller signs and broadcasts a transaction; the encrypted key of a
\* createLedger / rotateLedgerKey call is an encrypted input the caller built
\* for the contract and its own address
Submit(tx) ==
    /\ tx \notin pending
    /\ Len(receipts) + Cardinality(pending) < MaxTx
    /\ tx.op \in {"createLedger", "rotateLedgerKey"} => tx.encryptedKey.user = tx.sender
    /\ pending' = pending \cup {tx}
    /\ UNCHANGED <<storage, now, receipts>>

\* the invocations of the same function by the same caller that are pending
\* beside tx
Rivals(tx) == {t \in pending \ {tx} : t.op = tx.op /\ t.sender = tx.sender}

\* the chain processes one pending transaction in a block stamped `timestamp`
Process(tx, timestamp, outcome) ==
    /\ tx \in pending
    /\ timestamp \in {now, now + 1}
    /\ pending' = pending \ {tx}
    /\ now' = timestamp
    /\ _hasLedger' = outcome.hasLedger
    /\ _ledgerKey' = outcome.ledgerKey
    /\ _pouch' = outcome.pouch
    /\ acl' = outcome.acl
    /\ receipts' = Append(receipts, [tx |-> tx, status |-> outcome.status,
                                     logs |-> outcome.logs,
                                     rivals |-> Rivals(tx)])

CreateLedgerTx(tx, timestamp) ==
    /\ tx.op = "createLedger"
    /\ Process(tx, timestamp, createLedger(tx.sender, tx.encryptedKey))

RotateLedgerKeyTx(tx, timestamp) ==
    /\ tx.op = "rotateLedgerKey"
    /\ Process(tx, timestamp, rotateLedgerKey(tx.sender, tx.encryptedKey))

StoreEntryTx(tx, timestamp) ==
    /\ tx.op = "storeEntry"
    /\ Process(tx, timestamp, storeEntry(tx.sender, tx.ciphertext, timestamp))

\* only storeEntry reads block.timestamp: the blocks of storeEntry calls are
\* stamped with the latest timestamp or a later one, the others with the latest
Next ==
    \/ \E tx \in Transactions : Submit(tx) /\ UNCHANGED offChain
    \/ \E tx \in Transactions : CreateLedgerTx(tx, now) /\ UNCHANGED offChain
    \/ \E tx \in Transactions : RotateLedgerKeyTx(tx, now) /\ UNCHANGED offChain
    \/ \E tx \in Transactions, t \in {now, now + 1} :
            StoreEntryTx(tx, t) /\ UNCHANGED offChain

Spec == Init /\ [][Next]_vars

\* ===================================================================
\* Properties
\* ===================================================================
Indices == 1..Len(receipts)

IsCall(r, op, owner) == r.tx.op = op /\ r.tx.sender = owner

Succeeded(r) == r.status = "success"

\* the step processes one transaction
Processed == Len(receipts') = Len(receipts) + 1

LastReceipt == receipts[Len(receipts)]

everCreated(owner) ==
    \E i \in Indices : IsCall(receipts[i], "createLedger", owner) /\ Succeeded(receipts[i])

\* receipts of the successful storeEntry calls of owner, in processing order
StoredBy(owner) ==
    SelectSeq(receipts, LAMBDA r : IsCall(r, "storeEntry", owner) /\ Succeeded(r))

\* positions of the successful createLedger / rotateLedgerKey calls of owner
KeyCalls(owner) ==
    {i \in Indices : /\ receipts[i].tx.sender = owner
                     /\ receipts[i].tx.op \in {"createLedger", "rotateLedgerKey"}
                     /\ Succeeded(receipts[i])}

Max(S) == CHOOSE x \in S : \A y \in S : y <= x

\* C1: an owner that has never successfully called createLedger has no
\* ledger in any reachable state, whatever the other owners did:
\* hasLedger is false, getLedgerKey fails with LedgerNotFound and
\* getEntryCount is 0.
C1_NeverCreatedHasNothing ==
    \A o \in Owners :
        ~everCreated(o) =>
            /\ hasLedger(o) = FALSE
            /\ getLedgerKey(o) = Reverted("LedgerNotFound")
            /\ getEntryCount(o) = 0

\* an owner without createLedger tried to store and to rotate while the
\* other owner holds a ledger
C1_Witness ==
    \E o \in Owners, p \in Owners :
        /\ o # p
        /\ ~everCreated(o)
        /\ \E i \in Indices : IsCall(receipts[i], "storeEntry", o)
        /\ \E i \in Indices : IsCall(receipts[i], "rotateLedgerKey", o)
        /\ _hasLedger[p]

\* C2: a createLedger call by an owner who already has a ledger fails with
\* LedgerAlreadyExists, leaves the whole ledger state (flags, handles,
\* entries, reveal capabilities of every owner) as it was and emits no
\* LedgerCreated event.
C2_SecondCreateRejected ==
    [][(Processed /\ receipts'[Len(receipts')].tx.op = "createLedger"
                  /\ _hasLedger[receipts'[Len(receipts')].tx.sender])
        => /\ receipts'[Len(receipts')].status = "LedgerAlreadyExists"
           /\ receipts'[Len(receipts')].logs = <<>>
           /\ UNCHANGED storage]_vars

\* a second createLedger, with another key, was rejected for an owner that
\* already stored an entry
C2_Witness ==
    /\ receipts # <<>>
    /\ LastReceipt.tx.op = "createLedger"
    /\ LastReceipt.status = "LedgerAlreadyExists"
    /\ LastReceipt.tx.encryptedKey # _ledgerKey[LastReceipt.tx.sender]
    /\ _pouch[LastReceipt.tx.sender] # <<>>

\* C3: after n successful storeEntry calls by an owner, interleaved with
\* anything else, getEntryCount is n, getEntry(i) for i < n returns the
\* ciphertext of the (i+1)-th call, and getEntry(i) fails with
\* EntryIndexOutOfBounds for every i >= n (n = 0 without a ledger).
C3_AppendMonotonicity ==
    \A o \in Owners :
        LET calls == StoredBy(o)
            n == Len(calls)
        IN  /\ getEntryCount(o) = n
            /\ \A i \in 0..(n - 1) :
                   /\ getEntry(o, i).ok
                   /\ getEntry(o, i).value[2] = calls[i + 1].tx.ciphertext
            /\ \A i \in n..(MaxTx + 1) :
                   getEntry(o, i) = Reverted("EntryIndexOutOfBounds")

\* an owner stored two different ciphertexts
C3_Witness ==
    \E o \in Owners :
        /\ Len(StoredBy(o)) = 2
        /\ StoredBy(o)[1].tx.ciphertext # StoredBy(o)[2].tx.ciphertext

\* C4: storeEntry by a caller without a ledger fails with LedgerNotFound,
\* appends nothing (the caller's count stays 0), emits no EntryStored event
\* and changes no other state.
C4_StoreWithoutLedgerRejected ==
    [][(Processed /\ receipts'[Len(receipts')].tx.op = "storeEntry"
                  /\ ~_hasLedger[receipts'[Len(receipts')].tx.sender])
        => /\ receipts'[Len(receipts')].status = "LedgerNotFound"
           /\ receipts'[Len(receipts')].logs = <<>>
           /\ Len(_pouch'[receipts'[Len(receipts')].tx.sender]) = 0
           /\ UNCHANGED storage]_vars

\* a storeEntry of an owner without a ledger was rejected while the other
\* owner has a ledger with an entry
C4_Witness ==
    /\ receipts # <<>>
    /\ LastReceipt.tx.op = "storeEntry"
    /\ LastReceipt.status = "LedgerNotFound"
    /\ \E p \in Owners : p # LastReceipt.tx.sender /\ _pouch[p] # <<>>

\* C5: rotateLedgerKey by a caller without a ledger fails with
\* LedgerNotFound: no ledger is created, the supplied handle is not stored,
\* no reveal capability is granted and no LedgerKeyRotated event is emitted.
C5_RotateWithoutLedgerRejected ==
    [][(Processed /\ receipts'[Len(receipts')].tx.op = "rotateLedgerKey"
                  /\ ~_hasLedger[receipts'[Len(receipts')].tx.sender])
        => LET r == receipts'[Len(receipts')]
           IN  /\ r.status = "LedgerNotFound"
               /\ r.logs = <<>>
               /\ ~_hasLedger'[r.tx.sender]
               /\ _ledgerKey'[r.tx.sender] # fromExternal(r.tx.encryptedKey)
               /\ _ledgerKey'[r.tx.sender] = _ledgerKey[r.tx.sender]
               /\ acl' = acl
               /\ UNCHANGED storage]_vars

\* a rotateLedgerKey of an owner without a ledger was rejected while the
\* other owner has a ledger
C5_Witness ==
    /\ receipts # <<>>
    /\ LastReceipt.tx.op = "rotateLedgerKey"
    /\ LastReceipt.status = "LedgerNotFound"
    /\ \E p \in Owners : p # LastReceipt.tx.sender /\ _hasLedger[p]

\* C6: for an owner with a ledger, getLedgerKey returns exactly the handle
\* of the owner's most recent successful createLedger or rotateLedgerKey
\* call: a successful rotation replaces the stored handle by the new one
\* and keeps hasLedger true; the record holds no earlier handle.
C6_KeyIsLatestHandle ==
    \A o \in Owners :
        /\ hasLedger(o) => KeyCalls(o) # {}
        /\ KeyCalls(o) # {} =>
               LET latest == receipts[Max(KeyCalls(o))]
               IN  /\ hasLedger(o)
                   /\ getLedgerKey(o) = Returned(fromExternal(latest.tx.encryptedKey))
                   /\ _ledgerKey[o] = fromExternal(latest.tx.encryptedKey)

\* the latest key call of an owner is a rotation to a handle other than the
\* one the ledger was created with
C6_Witness ==
    \E o \in Owners :
        /\ KeyCalls(o) # {}
        /\ receipts[Max(KeyCalls(o))].tx.op = "rotateLedgerKey"
        /\ \E i \in KeyCalls(o) :
               /\ receipts[i].tx.op = "createLedger"
               /\ receipts[i].tx.encryptedKey # _ledgerKey[o]

\* C7: the lifecycle of an owner is one-way NoLedger -> HasLedger: once
\* hasLedger is true it stays true under any createLedger, rotateLedgerKey
\* and storeEntry call of any caller, successful or failing.
C7_LedgerNeverRemoved ==
    [][\A o \in Owners : hasLedger(o) => hasLedger(o)']_vars

\* an owner's ledger went through a rotation and a rejected second
\* createLedger
C7_Witness ==
    \E o \in Owners :
        /\ hasLedger(o)
        /\ \E i \in Indices : IsCall(receipts[i], "rotateLedgerKey", o) /\ Succeeded(receipts[i])
        /\ \E i \in Indices : IsCall(receipts[i], "createLedger", o) /\ ~Succeeded(receipts[i])

\* C8: owner isolation: a createLedger, rotateLedgerKey or storeEntry call
\* of caller C changes C's partition only; the flag, handle, entries and
\* entry count of every other owner are as before the call.
C8_OwnerIsolation ==
    [][Processed =>
        \A o \in Owners \ {receipts'[Len(receipts')].tx.sender} :
            /\ _hasLedger'[o] = _hasLedger[o]
            /\ _ledgerKey'[o] = _ledgerKey[o]
            /\ _pouch'[o] = _pouch[o]
            /\ getEntryCount(o)' = getEntryCount(o)]_vars

\* both owners have a ledger and the last call stored an entry for one of
\* them while the other holds an entry too
C8_Witness ==
    /\ receipts # <<>>
    /\ \A o \in Owners : _hasLedger[o]
    /\ LastReceipt.tx.op = "storeEntry"
    /\ Succeeded(LastReceipt)
    /\ \E p \in Owners : p # LastReceipt.tx.sender /\ _hasLedger[p]

\* the owner had no ledger before the i-th transaction was processed
NoLedgerBefore(owner, i) ==
    \A k \in 1..(i - 1) :
        ~(IsCall(receipts[k], "createLedger", owner) /\ Succeeded(receipts[k]))

\* positions i < j of two createLedger invocations of owner that were pending
\* together when the first of them was processed, the owner having no ledger
Races(owner) ==
    {p \in Indices \X Indices :
        /\ p[1] < p[2]
        /\ IsCall(receipts[p[1]], "createLedger", owner)
        /\ IsCall(receipts[p[2]], "createLedger", owner)
        /\ receipts[p[2]].tx \in receipts[p[1]].rivals
        /\ \A k \in (p[1] + 1)..(p[2] - 1) : receipts[k].tx # receipts[p[2]].tx
        /\ NoLedgerBefore(owner, p[1])}

\* C9: of two createLedger invocations submitted concurrently for the same
\* owner (racing to create the ledger the owner does not have yet), in
\* whichever order they are processed, exactly one commits and the other
\* fails with LedgerAlreadyExists; the handle stored afterwards (until a
\* rotation) is the one of the committing invocation.
C9_CreateRace ==
    \A o \in Owners : \A p \in Races(o) :
        LET first == receipts[p[1]]
            second == receipts[p[2]]
        IN  /\ Succeeded(first)
            /\ second.status = "LedgerAlreadyExists"
            /\ Cardinality({i \in {p[1], p[2]} : Succeeded(receipts[i])}) = 1
            /\ (\A k \in (p[1] + 1)..Len(receipts) :
                    ~IsCall(receipts[k], "rotateLedgerKey", o))
               => getLedgerKey(o) = Returned(fromExternal(first.tx.encryptedKey))

\* two createLedger invocations of an owner were pending together, the one
\* with the second encrypted input was processed first and the other after
\* it, with another transaction processed in between
C9_Witness ==
    \E o \in Owners : \E p \in Races(o) :
        /\ receipts[p[1]].tx.encryptedKey = createEncryptedInput(o, 2)
        /\ receipts[p[2]].tx.encryptedKey = createEncryptedInput(o, 1)
        /\ p[2] = p[1] + 2

\* C10: the pouch is append-only: an existing entry (createdAt, ciphertext)
\* is returned unchanged by getEntry in every later state, also after
\* rotateLedgerKey and further storeEntry calls; getEntryCount never
\* decreases and grows by exactly 1 per successful storeEntry.
C10_AppendOnly ==
    [][\A o \in Owners :
        /\ \A i \in 0..(getEntryCount(o) - 1) : getEntry(o, i)' = getEntry(o, i)
        /\ getEntryCount(o)' >= getEntryCount(o)
        /\ getEntryCount(o)' =
               IF /\ Processed
                  /\ IsCall(receipts'[Len(receipts')], "storeEntry", o)
                  /\ Succeeded(receipts'[Len(receipts')])
               THEN getEntryCount(o) + 1
               ELSE getEntryCount(o)]_vars

\* an owner stored an entry and then rotated the key
C10_Witness ==
    \E o \in Owners : \E i, j \in Indices :
        /\ i < j
        /\ IsCall(receipts[i], "storeEntry", o) /\ Succeeded(receipts[i])
        /\ IsCall(receipts[j], "rotateLedgerKey", o) /\ Succeeded(receipts[j])
        /\ getEntryCount(o) = 1

\* C11: getLedgerKey(owner) does not depend on who calls it: in one ledger
\* state any two callers asking for the same owner get the same outcome,
\* the same handle or LedgerNotFound for both.
C11_KeyReadIgnoresCaller ==
    \A owner \in Owners : \A c1 \in Owners, c2 \in Owners :
        getLedgerKeyCall(c1, owner) = getLedgerKeyCall(c2, owner)

\* one owner has a ledger and the other has none, so that a lookup by
\* caller would tell the two callers apart
C11_Witness ==
    \E o \in Owners, c \in Owners :
        /\ o # c
        /\ hasLedger(o) /\ ~hasLedger(c)
        /\ getLedgerKeyCall(c, o) = Returned(_ledgerKey[o])
        /\ getLedgerKeyCall(c, c) = Reverted("LedgerNotFound")

\* the accounts and contracts allowed on a handle
AllowedOn(key) == {g[2] : g \in {h \in acl : h[1] = key}}

\* C12: after every successful createLedger or rotateLedgerKey of owner O
\* the reveal capability on the stored handle is granted to O only: O is
\* allowed on it, no other account is, and the only further entry on the
\* handle is the contract's own (FHE.allowThis).
C12_RevealGrantedToOwnerOnly ==
    \A o \in Owners :
        KeyCalls(o) # {} =>
            /\ o \in AllowedOn(_ledgerKey[o])
            /\ AllowedOn(_ledgerKey[o]) \cap Owners = {o}
            /\ AllowedOn(_ledgerKey[o]) \subseteq {o, ContractAddress}

\* both owners hold a ledger and one of them rotated to a second handle
C12_Witness ==
    /\ \A o \in Owners : hasLedger(o)
    /\ \E o \in Owners :
           /\ receipts[Max(KeyCalls(o))].tx.op = "rotateLedgerKey"
           /\ Cardinality({g \in acl : g[2] = o}) = 2

\* ===================================================================
\* Key derivation and symmetric cipher (ledgerCrypto)
\* ===================================================================
\* Strings are sequences of one-character strings, bytes are 0..255.

MaxPlainLen == 3    \* longest plaintext encrypted
MaxNonces == 2      \* nonces crypto.getRandomValues may draw

Base64Alphabet ==
    <<"A", "B", "C", "D", "E", "F", "G", "H", "I", "J", "K", "L", "M", "N", "O", "P",
      "Q", "R", "S", "T", "U", "V", "W", "X", "Y", "Z", "a", "b", "c", "d", "e", "f",
      "g", "h", "i", "j", "k", "l", "m", "n", "o", "p", "q", "r", "s", "t", "u", "v",
      "w", "x", "y", "z", "0", "1", "2", "3", "4", "5", "6", "7", "8", "9", "+", "/">>

HexAlphabet ==
    <<"0", "1", "2", "3", "4", "5", "6", "7", "8", "9", "a", "b", "c", "d", "e", "f">>

UpperHex == <<"A", "B", "C", "D", "E", "F">>

AsciiWhitespace == {" "}

Range(s) == {s[i] : i \in 1..Len(s)}

IndexOf(c, s) == CHOOSE i \in 1..Len(s) : s[i] = c

\* ADDRESS_RE = /^0x[a-fA-F0-9]{40}$/
AddressDigits == 40

ADDRESS_RE(value) ==
    /\ Len(value) = AddressDigits + 2
    /\ value[1] = "0" /\ value[2] = "x"
    /\ \A i \in 3..Len(value) : value[i] \in Range(HexAlphabet) \cup Range(UpperHex)

\* Number.parseInt(pair, 16) of two hex digits
HexValue(c) ==
    IF c \in Range(HexAlphabet) THEN IndexOf(c, HexAlphabet) - 1
    ELSE IndexOf(c, UpperHex) + 9

hexToBytes(hex) ==
    LET normalized == IF Len(hex) >= 2 /\ hex[1] = "0" /\ hex[2] = "x"
                      THEN SubSeq(hex, 3, Len(hex)) ELSE hex
    IN  [i \in 1..(Len(normalized) \div 2) |->
            16 * HexValue(normalized[2 * i - 1]) + HexValue(normalized[2 * i])]

\* btoa(String.fromCharCode(...bytes)): three bytes make four characters,
\* a last group of one or two bytes is padded with "="
RECURSIVE bytesToBase64(_)
bytesToBase64(bytes) ==
    LET ch(v) == Base64Alphabet[v + 1]
    IN  IF Len(bytes) = 0 THEN <<>>
        ELSE IF Len(bytes) = 1 THEN
            <<ch(bytes[1] \div 4), ch((bytes[1] % 4) * 16), "=", "=">>
        ELSE IF Len(bytes) = 2 THEN
            <<ch(bytes[1] \div 4),
              ch((bytes[1] % 4) * 16 + bytes[2] \div 16),
              ch((bytes[2] % 16) * 4), "=">>
        ELSE
            <<ch(bytes[1] \div 4),
              ch((bytes[1] % 4) * 16 + bytes[2] \div 16),
              ch((bytes[2] % 16) * 4 + bytes[3] \div 64),
              ch(bytes[3] % 64)>> \o bytesToBase64(SubSeq(bytes, 4, Len(bytes)))

\* the bytes of a run of alphabet characters; the unused low bits of a last
\* group of two or three characters are dropped
RECURSIVE DecodeGroups(_)
DecodeGroups(data) ==
    LET v(i) == IndexOf(data[i], Base64Alphabet) - 1
    IN  IF Len(data) = 0 THEN <<>>
        ELSE IF Len(data) = 2 THEN <<v(1) * 4 + v(2) \div 16>>
        ELSE IF Len(data) = 3 THEN
            <<v(1) * 4 + v(2) \div 16, (v(2) % 16) * 16 + v(3) \div 4>>
        ELSE
            <<v(1) * 4 + v(2) \div 16,
              (v(2) % 16) * 16 + v(3) \div 4,
              (v(3) % 4) * 64 + v(4)>> \o DecodeGroups(SubSeq(data, 5, Len(data)))

Thrown(error) == [ok |-> FALSE, error |-> error, value |-> <<>>]

Value(value) == [ok |-> TRUE, error |-> "", value |-> value]

\* atob: whitespace is skipped, one or two "=" closing a multiple of four
\* characters are dropped, a remainder of one character or a character
\* outside the alphabet throws
atob(base64) ==
    LET stripped == SelectSeq(base64, LAMBDA c : c \notin AsciiWhitespace)
        n == Len(stripped)
        pad == IF n % 4 = 0 /\ n > 0 /\ stripped[n] = "="
               THEN (IF stripped[n - 1] = "=" THEN 2 ELSE 1) ELSE 0
        data == SubSeq(stripped, 1, n - pad)
    IN  IF Len(data) % 4 = 1 THEN Thrown("InvalidCharacterError")
        ELSE IF \E i \in 1..Len(data) : data[i] \notin Range(Base64Alphabet)
             THEN Thrown("InvalidCharacterError")
        ELSE Value(DecodeGroups(data))

\* a string that is no base64 is reported the way a failed decryption is
base64ToBytes_AsOperationError(base64) ==
    IF atob(base64).ok THEN atob(base64) ELSE Thrown("OperationError")

base64ToBytes(base64) == atob(base64)

\* ---------------------------------------------------- WebCrypto stand-ins
\* SHA-256 and AES-GCM are replaced by arithmetic with the same interface:
\* a digest of the input bytes, a keystream cipher whose stream depends on key
\* and nonce, and a 16-byte tag over key, nonce and ciphertext that decryption
\* verifies before it releases any plaintext.

TagLength == 16

NonceLength == 12

RECURSIVE Roll(_, _)
Roll(h, bytes) ==
    IF Len(bytes) = 0 THEN h
    ELSE Roll((h * 31 + bytes[1] + 1) % 1000003, Tail(bytes))

\* crypto.subtle.digest('SHA-256', ..) followed by importKey('raw', ..)
digest(bytes) == Roll(7, bytes)

GcmStream(key, iv, i) == (Roll(key, iv) + 7 * i) % 256

GcmTag(key, iv, cipherText) ==
    LET t == Roll(Roll(key, iv), cipherText)
    IN  [j \in 1..TagLength |->
            IF j = 1 THEN t % 256
            ELSE IF j = 2 THEN (t \div 256) % 256
            ELSE IF j = 3 THEN (t \div 65536) % 256
            ELSE (t + 37 * j) % 256]

\* crypto.subtle.encrypt({ name: 'AES-GCM', iv }, key, data): ciphertext || tag
subtle_encrypt(key, iv, data) ==
    LET cipherText == [i \in 1..Len(data) |-> (data[i] + GcmStream(key, iv, i)) % 256]
    IN  cipherText \o GcmTag(key, iv, cipherText)

\* as subtle_decrypt, releasing the plaintext without verifying the tag
subtle_decrypt_Unverified(key, iv, data) ==
    IF Len(data) < TagLength THEN Thrown("OperationError")
    ELSE LET cipherText == SubSeq(data, 1, Len(data) - TagLength)
         IN  Value([i \in 1..Len(cipherText) |->
                     (cipherText[i] + 256 - GcmStream(key, iv, i)) % 256])

\* crypto.subtle.decrypt({ name: 'AES-GCM', iv }, key, data): rejects with an
\* OperationError unless the tag authenticates the ciphertext
subtle_decrypt(key, iv, data) ==
    IF Len(data) < TagLength THEN Thrown("OperationError")
    ELSE LET cipherText == SubSeq(data, 1, Len(data) - TagLength)
             tag == SubSeq(data, Len(data) - TagLength + 1, Len(data))
         IN  IF tag # GcmTag(key, iv, cipherText) THEN Thrown("OperationError")
             ELSE Value([i \in 1..Len(cipherText) |->
                          (cipherText[i] + 256 - GcmStream(key, iv, i)) % 256])

\* the letters plaintexts are written with, UTF-8 code 97 onwards
Letters ==
    <<"a", "b", "c", "d", "e", "f", "g", "h", "i", "j", "k", "l", "m",
      "n", "o", "p", "q", "r", "s", "t", "u", "v", "w", "x", "y", "z">>

\* three characters outside the letters, each written as one string:
\* the byte order mark, an unpaired surrogate, the replacement character
BOM == "U+FEFF"

LoneSurrogate == "U+D800"

ReplacementCharacter == "U+FFFD"

\* TextEncoder writes UTF-8; a code unit that is no character (an unpaired
\* surrogate) is written as the replacement character
RECURSIVE TextEncoder_encode(_)
TextEncoder_encode(text) ==
    IF Len(text) = 0 THEN <<>>
    ELSE (IF text[1] = BOM THEN <<239, 187, 191>>
          ELSE IF text[1] \in {LoneSurrogate, ReplacementCharacter} THEN <<239, 191, 189>>
          ELSE <<96 + IndexOf(text[1], Letters)>>) \o TextEncoder_encode(Tail(text))

RECURSIVE Utf8Decode(_)
Utf8Decode(bytes) ==
    IF Len(bytes) = 0 THEN <<>>
    ELSE IF bytes[1] \in 97..122
         THEN <<Letters[bytes[1] - 96]>> \o Utf8Decode(Tail(bytes))
    ELSE IF Len(bytes) >= 3 /\ SubSeq(bytes, 1, 3) = <<239, 187, 191>>
         THEN <<BOM>> \o Utf8Decode(SubSeq(bytes, 4, Len(bytes)))
    ELSE IF Len(bytes) >= 3 /\ SubSeq(bytes, 1, 3) = <<239, 191, 189>>
         THEN <<ReplacementCharacter>> \o Utf8Decode(SubSeq(bytes, 4, Len(bytes)))
    ELSE <<ReplacementCharacter>> \o Utf8Decode(Tail(bytes))

\* new TextDecoder() has ignoreBOM false: a byte order mark that opens the
\* input is not part of the decoded text
TextDecoder_decode(bytes) ==
    IF Len(Utf8Decode(bytes)) > 0 /\ Utf8Decode(bytes)[1] = BOM
    THEN Tail(Utf8Decode(bytes)) ELSE Utf8Decode(bytes)

\* ------------------------------------------------------------ ledgerCrypto
assertAddress(address) ==
    IF ADDRESS_RE(address) THEN Value(address) ELSE Thrown("Invalid address key")

deriveAesKeyFromAddress(addressKey) ==
    IF ~assertAddress(addressKey).ok THEN assertAddress(addressKey)
    ELSE Value(digest(hexToBytes(addressKey)))

VersionTag == <<"s", "l", "1">>

\* iv is the nonce crypto.getRandomValues(new Uint8Array(12)) draws
encryptWithAddressKey(plaintext, addressKey, iv) ==
    LET key == deriveAesKeyFromAddress(addressKey)
    IN  IF ~key.ok THEN key
        ELSE Value(VersionTag \o <<":">> \o bytesToBase64(iv) \o <<":">>
                   \o bytesToBase64(subtle_encrypt(key.value, iv, TextEncoder_encode(plaintext))))

\* String.prototype.split
RECURSIVE split(_, _)
split(s, separator) ==
    IF \A i \in 1..Len(s) : s[i] # separator THEN <<s>>
    ELSE LET k == CHOOSE i \in 1..Len(s) :
                    s[i] = separator /\ \A j \in 1..(i - 1) : s[j] # separator
         IN  <<SubSeq(s, 1, k - 1)>> \o split(SubSeq(s, k + 1, Len(s)), separator)

\* the first three fields of the payload; a field the payload does not have
\* is undefined, which the format check treats as the empty string
Field(payload, k) ==
    IF Len(split(payload, ":")) >= k THEN split(payload, ":")[k] ELSE <<>>

\* as decryptWithAddressKey, deriving the key before the format check
decryptWithAddressKey_KeyFirst(payload, addressKey) ==
    LET key == deriveAesKeyFromAddress(addressKey)
        iv == base64ToBytes(Field(payload, 2))
        cipherBytes == base64ToBytes(Field(payload, 3))
        plainBuffer == subtle_decrypt(key.value, iv.value, cipherBytes.value)
    IN  IF ~key.ok THEN key
        ELSE IF Field(payload, 1) # VersionTag \/ Field(payload, 2) = <<>>
                \/ Field(payload, 3) = <<>>
             THEN Thrown("Unsupported ciphertext format")
        ELSE IF ~iv.ok THEN iv
        ELSE IF ~cipherBytes.ok THEN cipherBytes
        ELSE IF ~plainBuffer.ok THEN plainBuffer
        ELSE Value(TextDecoder_decode(plainBuffer.value))

decryptWithAddressKey(payload, addressKey) ==
    LET key == deriveAesKeyFromAddress(addressKey)
        iv == base64ToBytes(Field(payload, 2))
        cipherBytes == base64ToBytes(Field(payload, 3))
        plainBuffer == subtle_decrypt(key.value, iv.value, cipherBytes.value)
    IN  IF Field(payload, 1) # VersionTag \/ Field(payload, 2) = <<>>
           \/ Field(payload, 3) = <<>>
        THEN Thrown("Unsupported ciphertext format")
        ELSE IF ~key.ok THEN key
        ELSE IF ~iv.ok THEN iv
        ELSE IF ~cipherBytes.ok THEN cipherBytes
        ELSE IF ~plainBuffer.ok THEN plainBuffer
        ELSE Value(TextDecoder_decode(plainBuffer.value))

\* ------------------------------------------------------ cipher, as a machine
Hello == <<"h", "e", "l", "l", "o">>

World == <<"w", "o", "r", "l", "d">>

\* prefixes of two words, and short texts holding a byte order mark or an
\* unpaired surrogate
Plaintexts ==
    {SubSeq(w, 1, n) : w \in {Hello, World}, n \in 0..MaxPlainLen}
        \cup {<<BOM, "h">>, <<"h", BOM>>, <<LoneSurrogate>>}

AddressOf(d) == <<"0", "x">> \o [i \in 1..AddressDigits |-> d]

\* the address an encrypted input of the model encrypts: input n holds the
\* address written with the n-th non-zero hex digit
ClearKey(n) == AddressOf(HexAlphabet[n + 1])

ClearKeys == {ClearKey(n) : n \in 1..MaxKeys}

NotAnAddress == <<"0", "x", "1">>

Nonce(k) == [i \in 1..NonceLength |-> (53 * k + 29 * i) % 256]

Nonces == {Nonce(k) : k \in 1..MaxNonces}

Join(fields) ==
    IF Len(fields) = 0 THEN <<>>
    ELSE IF Len(fields) = 1 THEN fields[1]
    ELSE IF Len(fields) = 2 THEN fields[1] \o <<":">> \o fields[2]
    ELSE fields[1] \o <<":">> \o fields[2] \o <<":">> \o fields[3]

\* strings that did not come out of encryptWithAddressKey: up to three
\* fields, each empty, a version tag, or a run of base64 characters
ForeignFields == {<<>>, VersionTag, <<"s", "l", "2">>, <<"A", "A", "A", "A">>}

ForeignPayloads ==
    {Join(fields) : fields \in UNION {[1..n -> ForeignFields] : n \in 0..3}}

\* the characters one character of a wire string is replaced with: its
\* neighbour in the base64 alphabet, the character half the alphabet away,
\* a separator, a padding character, whitespace, and a character outside
\* the alphabet
Replacements(c) ==
    ({":", "=", " ", "!", "A"}
     \cup (IF c \in Range(Base64Alphabet)
           THEN {Base64Alphabet[((IndexOf(c, Base64Alphabet) - 1 + 1) % 64) + 1],
                 Base64Alphabet[((IndexOf(c, Base64Alphabet) - 1 + 32) % 64) + 1]}
           ELSE {})) \ {c}

Encrypt(plaintext, addressKey, iv) ==
    /\ cipherRun.stage = "idle"
    /\ encryptWithAddressKey(plaintext, addressKey, iv).ok
    /\ cipherRun' = [NoRun EXCEPT !.stage = "encrypted",
                                  !.plaintext = plaintext,
                                  !.addressKey = addressKey,
                                  !.iv = iv,
                                  !.produced = encryptWithAddressKey(plaintext, addressKey, iv).value,
                                  !.payload = encryptWithAddressKey(plaintext, addressKey, iv).value]
    /\ UNCHANGED <<chain, journal, client>>

\* one character of the produced string is changed on its way to decryption
Tamper(position, c) ==
    /\ cipherRun.stage = "encrypted"
    /\ cipherRun.changed = 0
    /\ position \in 1..Len(cipherRun.payload)
    /\ c \in Replacements(cipherRun.payload[position])
    /\ cipherRun' = [cipherRun EXCEPT !.payload[position] = c, !.changed = position]
    /\ UNCHANGED <<chain, journal, client>>

\* a string from elsewhere is handed to decryption
Receive(payload) ==
    /\ cipherRun.stage = "idle"
    /\ cipherRun' = [NoRun EXCEPT !.stage = "received", !.payload = payload]
    /\ UNCHANGED <<chain, journal, client>>

Decrypt(addressKey) ==
    /\ cipherRun.stage \in {"encrypted", "received"}
    /\ cipherRun' = [cipherRun EXCEPT !.stage = "decrypted",
                                      !.usedKey = addressKey,
                                      !.result = decryptWithAddressKey(cipherRun.payload, addressKey)]
    /\ UNCHANGED <<chain, journal, client>>

NextCipher ==
    \/ \E plaintext \in Plaintexts, addressKey \in ClearKeys, iv \in Nonces :
            Encrypt(plaintext, addressKey, iv)
    \/ \E position \in 1..Len(cipherRun.payload), c \in Range(Base64Alphabet) \cup {":", "=", " ", "!"} :
            Tamper(position, c)
    \/ \E payload \in ForeignPayloads : Receive(payload)
    \/ \E addressKey \in ClearKeys \cup {NotAnAddress} : Decrypt(addressKey)

SpecCipher == Init /\ [][NextCipher]_vars

\* a run that encrypted, possibly changed one character, and decrypted with
\* the key it encrypted with
SameKeyRun ==
    /\ cipherRun.stage = "decrypted"
    /\ cipherRun.produced # <<>>
    /\ cipherRun.usedKey = cipherRun.addressKey

\* C13: round trip: whatever plaintext, well-formed key and nonce went into
\* encryptWithAddressKey, decryptWithAddressKey of the produced string under
\* the same key returns the plaintext
C13_RoundTrip ==
    (SameKeyRun /\ cipherRun.changed = 0) => cipherRun.result = Value(cipherRun.plaintext)

\* the round trip of the texts made of letters only
C13_LettersRoundTrip ==
    (SameKeyRun /\ cipherRun.changed = 0
        /\ Range(cipherRun.plaintext) \subseteq Range(Letters))
    => cipherRun.result = Value(cipherRun.plaintext)

\* the positions of a produced string that hold the version tag or one of
\* the two separators
TagOrSeparator(w) ==
    {i \in 1..Len(w) : i <= Len(VersionTag) + 1 \/ (w[i] = ":" /\ i > Len(VersionTag) + 1)}

DecryptionFailed(result) == ~result.ok /\ result.error = "OperationError"

UnsupportedFormat(result) == ~result.ok /\ result.error = "Unsupported ciphertext format"

\* C14 as stated: every change of one character of a produced string makes
\* decryption under the same key fail with DecryptionFailed
C14_AnyChangeIsDecryptionFailed ==
    (SameKeyRun /\ cipherRun.changed # 0) => DecryptionFailed(cipherRun.result)

\* C14: after a change of one character of a produced string, decryption
\* under the same key never returns a text other than the one decryption of
\* the unchanged string returns:
\* it fails (unsupported format when the version tag or a separator was hit,
\* otherwise unsupported format, a base64 decoding error or a failed
\* authentication), or the changed string still decodes to the same nonce and
\* ciphertext bytes and the same text comes back
C14_ChangeNeverYieldsOtherPlaintext ==
    (SameKeyRun /\ cipherRun.changed # 0) =>
        /\ cipherRun.result.ok =>
              /\ cipherRun.result
                    = decryptWithAddressKey(cipherRun.produced, cipherRun.usedKey)
              /\ base64ToBytes(Field(cipherRun.payload, 2))
                    = base64ToBytes(Field(cipherRun.produced, 2))
              /\ base64ToBytes(Field(cipherRun.payload, 3))
                    = base64ToBytes(Field(cipherRun.produced, 3))
        /\ ~cipherRun.result.ok =>
              cipherRun.result.error \in {"Unsupported ciphertext format",
                                          "InvalidCharacterError", "OperationError"}
        /\ cipherRun.changed \in TagOrSeparator(cipherRun.produced) =>
              UnsupportedFormat(cipherRun.result)

\* a change inside the ciphertext field that the authentication tag catches
C14_Witness ==
    /\ SameKeyRun
    /\ cipherRun.changed > Len(cipherRun.produced) - 8
    /\ Len(cipherRun.plaintext) = MaxPlainLen
    /\ DecryptionFailed(cipherRun.result)

\* a change that leaves the decoded bytes as they were
C14_SameBytesAccepted ==
    /\ SameKeyRun /\ cipherRun.changed # 0
    /\ cipherRun.result.ok

\* the text of a string before its first ':', the whole string if it has none
TextBeforeColon(w) ==
    IF \A i \in 1..Len(w) : w[i] # ":" THEN w
    ELSE SubSeq(w, 1, (CHOOSE i \in 1..Len(w) :
                          w[i] = ":" /\ \A j \in 1..(i - 1) : w[j] # ":") - 1)

\* the k-th field after the version tag is missing (the string has fewer than
\* k separators) or empty (the k-th separator is followed by a separator or by
\* the end of the string)
Colons(w) == {i \in 1..Len(w) : w[i] = ":"}

FieldMissingOrEmpty(w, k) ==
    \/ Cardinality(Colons(w)) < k
    \/ \E i \in Colons(w) :
          /\ Cardinality({j \in Colons(w) : j <= i}) = k
          /\ (i = Len(w) \/ w[i + 1] = ":")

\* C16: a string whose version tag is not 'sl1', or whose nonce or ciphertext
\* field is missing or empty, is rejected as an unsupported format, and the
\* key is not looked at: the rejection is the same under a key from which
\* no AES key can be derived
C16_UnsupportedFormatFirst ==
    (/\ cipherRun.stage = "decrypted"
     /\ \/ TextBeforeColon(cipherRun.payload) # VersionTag
        \/ FieldMissingOrEmpty(cipherRun.payload, 1)
        \/ FieldMissingOrEmpty(cipherRun.payload, 2))
    => UnsupportedFormat(cipherRun.result)

C16_Witness ==
    /\ cipherRun.stage = "decrypted"
    /\ TextBeforeColon(cipherRun.payload) = VersionTag
    /\ ~FieldMissingOrEmpty(cipherRun.payload, 1)
    /\ FieldMissingOrEmpty(cipherRun.payload, 2)
    /\ cipherRun.usedKey = NotAnAddress
    /\ UnsupportedFormat(cipherRun.result)

\* ----------------------------------------- one owner's ledger across rotations
MaxStored == 4      \* entries the owner stores
MaxRotations == 1   \* rotations the owner performs

Third == <<"t", "h", "i", "r", "d">>

\* what the owner types into the message box, in the order it is stored
Messages == <<Hello, World, Third, <<BOM, "h", LoneSurrogate, " ">>>>

\* String.prototype.trim: white space, which the byte order mark belongs to,
\* is taken off both ends
WhiteSpace == {" ", BOM}

RECURSIVE trim(_)
trim(text) ==
    IF Len(text) = 0 THEN text
    ELSE IF text[1] \in WhiteSpace THEN trim(Tail(text))
    ELSE IF text[Len(text)] \in WhiteSpace THEN trim(SubSeq(text, 1, Len(text) - 1))
    ELSE text

\* the reveal of an encrypted address to an account holding the capability
userDecryptEaddress(handle) == ClearKey(handle.n)

\* the owner's transaction is processed in a block of its own
Mined(outcome) ==
    /\ _hasLedger' = outcome.hasLedger
    /\ _ledgerKey' = outcome.ledgerKey
    /\ _pouch' = outcome.pouch
    /\ acl' = outcome.acl
    /\ UNCHANGED <<now, pending, receipts, cipherRun>>

CreateWithKey(n) ==
    LET outcome == createLedger(LedgerOwner, createEncryptedInput(LedgerOwner, n))
    IN  /\ Mined(outcome)
        /\ journal' = IF Succeeded(outcome)
                      THEN [journal EXCEPT !.keys = <<ClearKey(n)>>] ELSE journal

RotateToKey(n) ==
    LET outcome == rotateLedgerKey(LedgerOwner, createEncryptedInput(LedgerOwner, n))
    IN  /\ Len(journal.keys) <= MaxRotations
        /\ Mined(outcome)
        /\ journal' = IF Succeeded(outcome)
                      THEN [journal EXCEPT !.keys = Append(@, ClearKey(n))] ELSE journal

\* the owner encrypts the next message under clear key material a session of
\* the owner holds (the current key, or an earlier one a session unlocked
\* before a rotation still holds) and stores the wire string
StoreEncrypted(addressKey) ==
    LET k == Len(journal.written) + 1
        plaintext == trim(Messages[((k - 1) % Len(Messages)) + 1])
        ciphertext == encryptWithAddressKey(plaintext, addressKey, Nonce(k)).value
        outcome == storeEntry(LedgerOwner, ciphertext, now)
    IN  /\ k <= MaxStored
        /\ addressKey \in Range(journal.keys)
        /\ Mined(outcome)
        /\ journal' = IF Succeeded(outcome)
                      THEN [journal EXCEPT !.written =
                                Append(@, [plaintext |-> plaintext, key |-> addressKey,
                                           generation |-> Len(journal.keys)])]
                      ELSE journal

NextRotation ==
    \/ \E n \in 1..MaxKeys : CreateWithKey(n) /\ UNCHANGED client
    \/ \E n \in 1..MaxKeys : RotateToKey(n) /\ UNCHANGED client
    \/ \E addressKey \in ClearKeys : StoreEncrypted(addressKey) /\ UNCHANGED client

SpecRotation == Init /\ [][NextRotation]_vars

\* what a session that unlocked the current key sees of entry `index`
DecryptedEntry(index) ==
    decryptWithAddressKey(getEntry(LedgerOwner, index).value[2],
                          userDecryptEaddress(getLedgerKey(LedgerOwner).value))

PriorKey == journal.keys[Len(journal.keys) - 1]

CurrentKey == journal.keys[Len(journal.keys)]

\* C15: once the owner has rotated to a different key, an entry encrypted
\* under the key rotated away from fails to decrypt under the current key with
\* DecryptionFailed, and an entry encrypted under the current key and stored
\* after the rotation decrypts under it to the plaintext that was encrypted
C15_RotationEffect ==
    (Len(journal.keys) >= 2 /\ PriorKey # CurrentKey) =>
        \A i \in 1..Len(journal.written) :
            /\ journal.written[i].key = PriorKey => DecryptionFailed(DecryptedEntry(i - 1))
            /\ (journal.written[i].key = CurrentKey
                    /\ journal.written[i].generation = Len(journal.keys))
                => DecryptedEntry(i - 1) = Value(journal.written[i].plaintext)

\* the stated scenario: create with K1, store 'hello' and 'world', rotate to
\* K2, store 'third'; entry 2 decrypts under K2, entries 0 and 1 fail
C15_StatedScenario ==
    /\ Len(journal.keys) = 2 /\ PriorKey # CurrentKey
    /\ Len(journal.written) = 3
    /\ journal.written[1] = [plaintext |-> Hello, key |-> PriorKey, generation |-> 1]
    /\ journal.written[2] = [plaintext |-> World, key |-> PriorKey, generation |-> 1]
    /\ journal.written[3] = [plaintext |-> Third, key |-> CurrentKey, generation |-> 2]
    /\ DecryptedEntry(2) = Value(Third)
    /\ DecryptionFailed(DecryptedEntry(0))
    /\ DecryptionFailed(DecryptedEntry(1))

\* ===================================================================
\* LedgerApp: the session of the connected owner
\* ===================================================================
\* The wallet is connected as LedgerOwner on Sepolia, the encryption service
\* is loaded and the contract address is set. Each state update is followed by
\* its render and the effects of that render in one step.

MaxSent == 1        \* messages the owner sends through the component
MaxClock == 12      \* days the clock runs

DurationDays == 10

TickDays == 6

MaxLoaded == 25

Entry(index, createdAt, ciphertext) ==
    [index |-> index, createdAt |-> createdAt, ciphertext |-> ciphertext,
     plaintext |-> Undefined, decryptError |-> NoError]

IsDecrypted(entry) == entry.plaintext # Undefined \/ entry.decryptError # NoError

clearMessages(state) == [state EXCEPT !.status = "", !.error = ""]

\* the orders in which the promises of a Promise.all over n promises settle
SettleOrders(n) == {[i \in 1..n |-> i], [i \in 1..n |-> n + 1 - i]}

\* the array fills in the order the promises settle
PromiseAll_InSettleOrder(values, order) ==
    [k \in 1..Len(values) |-> values[order[k]]]

\* Promise.all: the value of each promise lands at the place of its promise,
\* whatever the order the promises settle in
PromiseAll(values, order) ==
    LET RECURSIVE settle(_, _)
        settle(k, slots) ==
            IF k > Len(order) THEN slots
            ELSE settle(k + 1, [slots EXCEPT ![order[k]] = values[order[k]]])
    IN  settle(1, [i \in 1..Len(values) |-> Undefined])

\* the effect never hands back a cleanup
cleanup_Missing(batches) == batches

\* the cleanup the decrypt effect returns: `cancelled = true` in the closure of
\* the batch that effect started
cleanup(batches) == {[b EXCEPT !.cancelled = TRUE] : b \in batches}

\* the decrypt effect, run when the render of `next` differs from the render
\* of `prev` in entryCount or ledgerKeyAddress; gives the state after the
\* effect and the batches then in flight
decryptEffect(prev, next, batches) ==
    IF next.entryCount = prev.entryCount /\ next.ledgerKeyAddress = prev.ledgerKeyAddress
    THEN [ui |-> next, batches |-> batches]
    ELSE IF next.ledgerKeyAddress = NoKey
    THEN [ui |-> IF \E i \in 1..Len(next.entries) : IsDecrypted(next.entries[i])
                 THEN [next EXCEPT !.entries =
                          [i \in 1..Len(next.entries) |->
                              [next.entries[i] EXCEPT !.plaintext = Undefined,
                                                      !.decryptError = NoError]]]
                 ELSE next,
          batches |-> cleanup(batches)]
    ELSE IF \E i \in 1..Len(next.entries) : ~IsDecrypted(next.entries[i])
    THEN [ui |-> next,
          batches |-> cleanup(batches)
                        \cup {[entries |-> next.entries, key |-> next.ledgerKeyAddress,
                               cancelled |-> FALSE]}]
    ELSE [ui |-> next, batches |-> cleanup(batches)]

\* a state update is rendered
Render(next) ==
    /\ ui' = decryptEffect(ui, next, flights.batches).ui
    /\ flights' = [flights EXCEPT !.batches = decryptEffect(ui, next, flights.batches).batches]

\* as Render, with further changes to the calls in flight
RenderWith(next, unlocks, stores, refreshes) ==
    /\ ui' = decryptEffect(ui, next, flights.batches).ui
    /\ flights' = [creates |-> flights.creates, unlocks |-> unlocks, stores |-> stores,
                   refreshes |-> refreshes,
                   batches |-> decryptEffect(ui, next, flights.batches).batches]

\* the browser engines the component runs on
Engines == {"Blink", "Gecko"}

\* err.message of what decryptWithAddressKey throws: the text of an Error the
\* cipher made, the text the engine gives a DOMException (Blink gives an
\* OperationError none)
ErrorMessage(error, engine) ==
    IF error = "OperationError"
    THEN IF engine = "Blink" THEN ""
         ELSE "The operation failed for an operation-specific reason"
    ELSE error

\* decryptAll: every entry of the batch not yet decrypted gets its plaintext
\* or the message of its error, the decryptions settling in `order`
decryptAll(batch, engine, order) ==
    PromiseAll(
        [i \in 1..Len(batch.entries) |->
            LET entry == batch.entries[i]
                result == decryptWithAddressKey(entry.ciphertext, batch.key)
            IN  IF IsDecrypted(entry) THEN entry
                ELSE IF result.ok
                     THEN [entry EXCEPT !.plaintext = result.value,
                                        !.decryptError = NoError]
                     ELSE [entry EXCEPT !.plaintext = Undefined,
                                        !.decryptError = ErrorMessage(result.error, engine)]],
        order)

\* the Promise.all of a batch resolves
BatchDone(batch, engine, order) ==
    /\ batch \in flights.batches
    /\ order \in SettleOrders(Len(batch.entries))
    /\ ui' = IF batch.cancelled THEN ui
             ELSE [ui EXCEPT !.entries = decryptAll(batch, engine, order)]
    /\ flights' = [flights EXCEPT !.batches = @ \ {batch}]
    /\ UNCHANGED <<chain, cipherRun, journal, clock>>

lockLedger ==
    /\ ui.ledgerKeyAddress # NoKey
    /\ Render([clearMessages(ui) EXCEPT !.ledgerKeyAddress = NoKey,
                                         !.status = "Ledger locked."])
    /\ UNCHANGED <<chain, cipherRun, journal, clock>>

\* ------------------------------------------------------------------ unlock
MaxUnlocks == 2     \* unlock attempts that reach generateKeypair

\* instance.generateKeypair: the k-th pair the service hands out
generateKeypair(k) == [publicKey |-> <<"pub", k>>, privateKey |-> <<"priv", k>>]

\* instance.createEIP712: the typed message the wallet is asked to sign
createEIP712(publicKey, contractAddresses, startTimeStamp, durationDays) ==
    [publicKey |-> publicKey, contractAddresses |-> contractAddresses,
     startTimeStamp |-> startTimeStamp, durationDays |-> durationDays]

\* signer.signTypedData: the signature of `signer` over `message`, a hex string
Signature(signer, message) == <<"0x", [signer |-> signer, message |-> message]>>

\* signature.replace(/^0x/, '')
strip0x(signature) ==
    IF Len(signature) > 0 /\ signature[1] = "0x" THEN Tail(signature) ELSE signature

\* no reveal asked for yet
NoRequest ==
    [handles |-> <<>>, privateKey |-> <<>>, publicKey |-> <<>>, signature |-> <<>>,
     contractAddresses |-> <<>>, user |-> "", startTimeStamp |-> -1, durationDays |-> -1]

\* the reveal is asked for with a start timestamp taken anew
userDecryptRequest_NewTimestamp(attempt, signature) ==
    [handles |-> <<[handle |-> attempt.handle, contractAddress |-> ContractAddress]>>,
     privateKey |-> attempt.keypair.privateKey,
     publicKey |-> attempt.keypair.publicKey,
     signature |-> signature,
     contractAddresses |-> <<ContractAddress>>,
     user |-> attempt.user,
     startTimeStamp |-> clock,
     durationDays |-> DurationDays]

\* the arguments instance.userDecrypt is called with
userDecryptRequest(attempt, signature) ==
    [handles |-> <<[handle |-> attempt.handle, contractAddress |-> ContractAddress]>>,
     privateKey |-> attempt.keypair.privateKey,
     publicKey |-> attempt.keypair.publicKey,
     signature |-> signature,
     contractAddresses |-> attempt.eip712.contractAddresses,
     user |-> attempt.user,
     startTimeStamp |-> attempt.eip712.startTimeStamp,
     durationDays |-> attempt.eip712.durationDays]

\* the Unlock button
UnlockEnabled == ~ui.isUnlocking /\ ui.hasLedger

\* unlockLedger up to its first await; the attempt is noted together with the
\* key the session held when it began
unlockLedger ==
    /\ UnlockEnabled
    /\ IF ui.encryptedLedgerKey = NoHandle
       THEN /\ Render([clearMessages(ui) EXCEPT
                          !.error = "Ledger key not found. Create a ledger first."])
            /\ UNCHANGED journal
       ELSE /\ journal.keypairs < MaxUnlocks
            /\ RenderWith([clearMessages(ui) EXCEPT !.isUnlocking = TRUE],
                          flights.unlocks
                            \cup {[step |-> "signTypedData",
                                   handle |-> ui.encryptedLedgerKey,
                                   user |-> ui.address,
                                   heldAtStart |-> ui.ledgerKeyAddress,
                                   keypair |-> generateKeypair(journal.keypairs + 1),
                                   startTimeStamp |-> clock,
                                   eip712 |-> createEIP712(
                                       generateKeypair(journal.keypairs + 1).publicKey,
                                       <<ContractAddress>>, clock, DurationDays),
                                   request |-> NoRequest]},
                          flights.stores, flights.refreshes)
            /\ journal' = [journal EXCEPT !.keypairs = @ + 1]
    /\ UNCHANGED <<chain, cipherRun, clock>>

\* as unlockFailed, without the finally block
unlockFailed_StaysUnlocking(attempt, message) ==
    /\ attempt \in flights.unlocks
    /\ RenderWith([ui EXCEPT !.error = message],
                  flights.unlocks \ {attempt}, flights.stores, flights.refreshes)
    /\ UNCHANGED <<chain, cipherRun, journal, clock>>

\* an await of the attempt rejects, or the revealed value is thrown out: the
\* catch and finally blocks of unlockLedger
unlockFailed(attempt, message) ==
    /\ attempt \in flights.unlocks
    /\ RenderWith([ui EXCEPT !.error = message, !.isUnlocking = FALSE],
                  flights.unlocks \ {attempt}, flights.stores, flights.refreshes)
    /\ UNCHANGED <<chain, cipherRun, journal, clock>>

\* the wallet answers the request to sign the authorization
signTypedData(attempt, approved) ==
    /\ attempt \in flights.unlocks
    /\ attempt.step = "signTypedData"
    /\ IF approved
       THEN /\ flights' = [flights EXCEPT !.unlocks =
                              (@ \ {attempt})
                                \cup {[attempt EXCEPT
                                         !.step = "userDecrypt",
                                         !.request = userDecryptRequest(
                                             attempt,
                                             strip0x(Signature(attempt.user,
                                                               attempt.eip712)))]}]
            /\ UNCHANGED <<ui, chain, cipherRun, journal, clock>>
       ELSE unlockFailed(attempt, "user rejected action")

\* values that are no address: too short, too long, a digit that is not hex,
\* and no value at all under the handle
Malformed == {NotAnAddress, AddressOf("1") \o <<"1">>, AddressOf("g"), Undefined}

\* what the reveal service answers for a handle: the address behind it when
\* the owner holds the capability, a value that is no address, or a refusal
Reveals(handle, user) ==
    (IF <<handle, user>> \in acl /\ handle.n >= 1
     THEN {Value(userDecryptEaddress(handle))} ELSE {})
        \cup {Value(value) : value \in Malformed} \cup {Thrown("Relayer error")}

\* as userDecrypt, the revealed value taken as it comes
userDecrypt_Unvalidated(attempt, response) ==
    /\ attempt \in flights.unlocks
    /\ attempt.step = "userDecrypt"
    /\ response \in Reveals(attempt.request.handles[1].handle, attempt.request.user)
    /\ IF ~response.ok THEN unlockFailed(attempt, response.error)
       ELSE /\ RenderWith([ui EXCEPT !.ledgerKeyAddress = response.value,
                                     !.status = "Ledger unlocked.",
                                     !.isUnlocking = FALSE],
                          flights.unlocks \ {attempt}, flights.stores, flights.refreshes)
            /\ journal' = [journal EXCEPT !.validFrom = attempt.startTimeStamp]
            /\ UNCHANGED <<chain, cipherRun, clock>>

\* instance.userDecrypt returns
userDecrypt(attempt, response) ==
    /\ attempt \in flights.unlocks
    /\ attempt.step = "userDecrypt"
    /\ response \in Reveals(attempt.request.handles[1].handle, attempt.request.user)
    /\ IF ~response.ok THEN unlockFailed(attempt, response.error)
       ELSE IF ~ADDRESS_RE(response.value)
            THEN unlockFailed(attempt, "Unexpected decrypted key type.")
       ELSE /\ RenderWith([ui EXCEPT !.ledgerKeyAddress = response.value,
                                     !.status = "Ledger unlocked.",
                                     !.isUnlocking = FALSE],
                          flights.unlocks \ {attempt}, flights.stores, flights.refreshes)
            /\ journal' = [journal EXCEPT !.validFrom = attempt.startTimeStamp]
            /\ UNCHANGED <<chain, cipherRun, clock>>

\* ----------------------------------------------------------------- refresh
RefreshEnabled == ~ui.isRefreshing

\* the finally block of the handler that awaited the refresh, if one did
Finally(call, state) ==
    IF call.caller = "storeMessage" THEN [state EXCEPT !.isStoring = FALSE]
    ELSE IF call.caller = "createLedger" THEN [state EXCEPT !.isCreating = FALSE]
    ELSE state

\* a call of refresh on behalf of `caller`, for the account of the render
\* that made the callback
refreshCall(caller) ==
    [caller |-> caller, owner |-> ui.address, step |-> "hasLedger", count |-> 0]

\* refresh up to its first await
refresh ==
    /\ RefreshEnabled
    /\ RenderWith([clearMessages(ui) EXCEPT !.isRefreshing = TRUE],
                  flights.unlocks, flights.stores,
                  flights.refreshes \cup {refreshCall("")})
    /\ UNCHANGED <<chain, cipherRun, journal, clock>>

\* the window starts at the first entry whatever the count
start_WholePouch(count) == 0

\* the window of a refresh that read `count`: the first index it loads
start(count) == Max({0, count - MaxLoaded})

\* the entries a refresh that read `count` loads: one getEntry per index of
\* the window
Loaded(owner, count) ==
    [i \in 1..(count - start(count)) |->
        Entry(start(count) + i - 1,
              getEntry(owner, start(count) + i - 1).value[1],
              getEntry(owner, start(count) + i - 1).value[2])]

\* as refreshCounted, dropping the key whatever hasLedger returned
refreshCounted_AlwaysClearsKey(call) ==
    /\ call \in flights.refreshes
    /\ call.step = "hasLedger"
    /\ IF ~hasLedger(call.owner)
       THEN RenderWith(Finally(call, [ui EXCEPT !.hasLedger = FALSE,
                                                !.encryptedLedgerKey = NoHandle,
                                                !.ledgerKeyAddress = NoKey,
                                                !.entryCount = 0,
                                                !.entries = <<>>,
                                                !.isRefreshing = FALSE]),
                       flights.unlocks, flights.stores, flights.refreshes \ {call})
       ELSE RenderWith([ui EXCEPT !.hasLedger = TRUE,
                                  !.encryptedLedgerKey = getLedgerKey(call.owner).value,
                                  !.ledgerKeyAddress = NoKey,
                                  !.entryCount = getEntryCount(call.owner)],
                       flights.unlocks, flights.stores,
                       (flights.refreshes \ {call})
                           \cup {[call EXCEPT !.step = "getEntry",
                                              !.count = getEntryCount(call.owner)]})
    /\ UNCHANGED <<chain, cipherRun, journal, clock>>

\* hasLedger, getLedgerKey and getEntryCount return to a refresh: without a
\* ledger everything is cleared and the refresh is over, with one the flag,
\* the handle and the count are set and the entries are asked for
refreshCounted(call) ==
    /\ call \in flights.refreshes
    /\ call.step = "hasLedger"
    /\ IF ~hasLedger(call.owner)
       THEN RenderWith(Finally(call, [ui EXCEPT !.hasLedger = FALSE,
                                                !.encryptedLedgerKey = NoHandle,
                                                !.ledgerKeyAddress = NoKey,
                                                !.entryCount = 0,
                                                !.entries = <<>>,
                                                !.isRefreshing = FALSE]),
                       flights.unlocks, flights.stores, flights.refreshes \ {call})
       ELSE RenderWith([ui EXCEPT !.hasLedger = TRUE,
                                  !.encryptedLedgerKey = getLedgerKey(call.owner).value,
                                  !.entryCount = getEntryCount(call.owner)],
                       flights.unlocks, flights.stores,
                       (flights.refreshes \ {call})
                           \cup {[call EXCEPT !.step = "getEntry",
                                              !.count = getEntryCount(call.owner)]})
    /\ UNCHANGED <<chain, cipherRun, journal, clock>>

\* the getEntry reads of a refresh have all returned, in `order`; a refresh
\* that a handler awaited lets the handler finish
refreshDone(call, order) ==
    /\ call \in flights.refreshes
    /\ call.step = "getEntry"
    /\ order \in SettleOrders(call.count - start(call.count))
    /\ RenderWith(Finally(call, [ui EXCEPT !.entries =
                                      PromiseAll(Loaded(call.owner, call.count), order),
                                           !.isRefreshing = FALSE]),
                  flights.unlocks, flights.stores, flights.refreshes \ {call})
    /\ UNCHANGED <<chain, cipherRun, journal, clock>>

\* ------------------------------------------------------------------- store
\* the owner types the next message; the box is disabled without a key
typeMessage ==
    /\ ui.ledgerKeyAddress # NoKey
    /\ ui.message = <<>>
    /\ Render([ui EXCEPT !.message = Messages[(Len(journal.written) % Len(Messages)) + 1]])
    /\ UNCHANGED <<chain, cipherRun, journal, clock>>

\* the Store button
StoreEnabled == ~ui.isStoring /\ ui.ledgerKeyAddress # NoKey

\* as storeMessage, without the check for a key
storeMessage_NoKeyCheck ==
    /\ Len(journal.written) + Cardinality(flights.stores) < MaxSent
    /\ IF trim(ui.message) = <<>>
       THEN Render([clearMessages(ui) EXCEPT !.error = "Enter a message."])
       ELSE RenderWith([clearMessages(ui) EXCEPT !.isStoring = TRUE],
                       flights.unlocks,
                       flights.stores \cup {[owner |-> ui.address,
                                             key |-> ui.ledgerKeyAddress,
                                             message |-> trim(ui.message)]},
                       flights.refreshes)
    /\ UNCHANGED <<chain, cipherRun, journal, clock>>

\* storeMessage up to its first await. The handler as a function of the
\* state it is called in: the Store button that calls it is disabled while no
\* key is held or a store is in flight
storeMessage ==
    /\ Len(journal.written) + Cardinality(flights.stores) < MaxSent
    /\ IF ui.ledgerKeyAddress = NoKey
       THEN Render([clearMessages(ui) EXCEPT !.error = "Unlock your ledger key first."])
       ELSE IF trim(ui.message) = <<>>
       THEN Render([clearMessages(ui) EXCEPT !.error = "Enter a message."])
       ELSE RenderWith([clearMessages(ui) EXCEPT !.isStoring = TRUE],
                       flights.unlocks,
                       flights.stores \cup {[owner |-> ui.address,
                                             key |-> ui.ledgerKeyAddress,
                                             message |-> trim(ui.message)]},
                       flights.refreshes)
    /\ UNCHANGED <<chain, cipherRun, journal, clock>>

\* as storeMined, the message itself handed to storeEntry
storeMined_SendsMessage(call) ==
    LET k == Len(journal.written) + 1
        wire == Value(call.message)
        outcome == storeEntry(call.owner, wire.value, now)
    IN  /\ call \in flights.stores
        /\ IF wire.ok /\ Succeeded(outcome)
           THEN /\ _hasLedger' = outcome.hasLedger
                /\ _ledgerKey' = outcome.ledgerKey
                /\ _pouch' = outcome.pouch
                /\ acl' = outcome.acl
                /\ journal' = [journal EXCEPT !.written =
                                  Append(@, [plaintext |-> call.message, key |-> call.key,
                                             generation |-> Len(journal.keys)])]
                /\ RenderWith([clearMessages(ui) EXCEPT !.message = <<>>,
                                                        !.isRefreshing = TRUE],
                              flights.unlocks, flights.stores \ {call},
                              flights.refreshes
                                \cup {[refreshCall("storeMessage") EXCEPT
                                          !.owner = call.owner]})
           ELSE /\ RenderWith([ui EXCEPT !.error = IF wire.ok THEN outcome.status
                                                    ELSE wire.error,
                                         !.isStoring = FALSE],
                              flights.unlocks, flights.stores \ {call}, flights.refreshes)
                /\ UNCHANGED <<storage, journal>>
        /\ UNCHANGED <<now, pending, receipts, cipherRun, clock>>

\* the message is encrypted under the key storeMessage was called with, the
\* storeEntry transaction is mined, and storeMessage goes on to refresh
storeMined(call) ==
    LET k == Len(journal.written) + 1
        wire == encryptWithAddressKey(call.message, call.key, Nonce(k))
        outcome == storeEntry(call.owner, wire.value, now)
    IN  /\ call \in flights.stores
        /\ IF wire.ok /\ Succeeded(outcome)
           THEN /\ _hasLedger' = outcome.hasLedger
                /\ _ledgerKey' = outcome.ledgerKey
                /\ _pouch' = outcome.pouch
                /\ acl' = outcome.acl
                /\ journal' = [journal EXCEPT !.written =
                                  Append(@, [plaintext |-> call.message, key |-> call.key,
                                             generation |-> Len(journal.keys)])]
                /\ RenderWith([clearMessages(ui) EXCEPT !.message = <<>>,
                                                        !.isRefreshing = TRUE],
                              flights.unlocks, flights.stores \ {call},
                              flights.refreshes
                                \cup {[refreshCall("storeMessage") EXCEPT
                                          !.owner = call.owner]})
           ELSE /\ RenderWith([ui EXCEPT !.error = IF wire.ok THEN outcome.status
                                                    ELSE wire.error,
                                         !.isStoring = FALSE],
                              flights.unlocks, flights.stores \ {call}, flights.refreshes)
                /\ UNCHANGED <<storage, journal>>
        /\ UNCHANGED <<now, pending, receipts, cipherRun, clock>>

\* ------------------------------------------------------------------ create
\* the Create Ledger button
CreateEnabled == ~ui.isCreating

\* as createLedger up to its first await, isCreating left as it is
LedgerApp_createLedger_NeverBusy ==
    /\ ui' = clearMessages(ui)
    /\ flights' = [flights EXCEPT !.creates = @ \cup {[owner |-> ui.address]}]
    /\ UNCHANGED <<chain, cipherRun, journal, clock>>

\* createLedger of the component up to its first await
LedgerApp_createLedger ==
    /\ ui' = [clearMessages(ui) EXCEPT !.isCreating = TRUE]
    /\ flights' = [flights EXCEPT !.creates = @ \cup {[owner |-> ui.address]}]
    /\ UNCHANGED <<chain, cipherRun, journal, clock>>

\* a random address is encrypted as clear key n, the createLedger transaction
\* is mined, and createLedger goes on to refresh; a revert ends it with the
\* error shown
createMined(call, n) ==
    LET outcome == createLedger(call.owner, createEncryptedInput(call.owner, n))
    IN  /\ call \in flights.creates
        /\ IF Succeeded(outcome)
           THEN /\ _hasLedger' = outcome.hasLedger
                /\ _ledgerKey' = outcome.ledgerKey
                /\ _pouch' = outcome.pouch
                /\ acl' = outcome.acl
                /\ journal' = [journal EXCEPT !.keys = <<ClearKey(n)>>]
                /\ ui' = [clearMessages(ui) EXCEPT !.isRefreshing = TRUE]
                /\ flights' = [flights EXCEPT
                                  !.creates = @ \ {call},
                                  !.refreshes = @ \cup {[refreshCall("createLedger") EXCEPT
                                                            !.owner = call.owner]}]
           ELSE /\ ui' = [ui EXCEPT !.error = outcome.status, !.isCreating = FALSE]
                /\ flights' = [flights EXCEPT !.creates = @ \ {call}]
                /\ UNCHANGED <<storage, journal>>
        /\ UNCHANGED <<now, pending, receipts, cipherRun, clock>>

\* ----------------------------------------------- stores from the command line
MaxListed == 2      \* entries in the pouch of the owner

\* what the owner hands the store-entry task: text that was never encrypted,
\* a wire string whose nonce field is no base64, and a message encrypted
\* under the first and under the last clear key
TaskCiphertexts ==
    {Hello, Join(<<VersionTag, <<"!">>, <<"A", "A", "A", "A">>>>),
     encryptWithAddressKey(Hello, ClearKey(1), Nonce(1)).value,
     encryptWithAddressKey(World, ClearKey(MaxKeys), Nonce(2)).value}

\* task:silent-ledger:store-entry
StoreEntryTask(ciphertext) ==
    /\ Mined(storeEntry(LedgerOwner, ciphertext, now))
    /\ UNCHANGED journal

\* ------------------------------------------------------- time and the chain
Tick ==
    /\ clock + TickDays <= MaxClock
    /\ clock' = clock + TickDays
    /\ UNCHANGED <<chain, cipherRun, journal, ui, flights>>

NextClient ==
    \/ \E n \in 1..MaxKeys : CreateWithKey(n) /\ UNCHANGED client
    \/ refresh
    \/ \E call \in flights.refreshes : refreshCounted(call)
    \/ \E call \in flights.refreshes :
            \E order \in SettleOrders(call.count - start(call.count)) : refreshDone(call, order)
    \/ unlockLedger
    \/ \E attempt \in flights.unlocks : signTypedData(attempt, TRUE)
    \/ \E attempt \in flights.unlocks :
            \E response \in Reveals(attempt.handle, attempt.user) :
                /\ response.ok
                /\ userDecrypt(attempt, response)
    \/ lockLedger
    \/ \E batch \in flights.batches, engine \in Engines :
            \E order \in SettleOrders(Len(batch.entries)) : BatchDone(batch, engine, order)
    \/ typeMessage
    \/ storeMessage
    \/ \E call \in flights.stores : storeMined(call)

SpecClient == Init /\ [][NextClient]_vars

\* the two ways an entry of the owner reaches the ledger: the Store button of
\* the component and the store-entry task
NextStore ==
    \/ \E n \in 1..MaxKeys : CreateWithKey(n) /\ UNCHANGED client
    \/ /\ Len(_pouch[LedgerOwner]) < MaxListed - 1
       /\ StoreEntryTask(Hello)
       /\ UNCHANGED client
    \/ refresh
    \/ \E call \in flights.refreshes : refreshCounted(call)
    \/ \E call \in flights.refreshes :
            \E order \in SettleOrders(call.count - start(call.count)) : refreshDone(call, order)
    \/ ui.ledgerKeyAddress = NoKey /\ unlockLedger
    \/ \E attempt \in flights.unlocks : signTypedData(attempt, TRUE)
    \/ \E attempt \in flights.unlocks :
            \E response \in Reveals(attempt.handle, attempt.user) :
                /\ response.ok
                /\ userDecrypt(attempt, response)
    \/ typeMessage
    \/ StoreEnabled /\ storeMessage
    \/ \E call \in flights.stores : storeMined(call)

SpecStore == Init /\ [][NextStore]_vars

\* the component as its buttons let the owner use it: create, refresh,
\* unlock, type and store
NextButtons ==
    \/ CreateEnabled /\ LedgerApp_createLedger
    \/ \E call \in flights.creates, n \in 1..MaxKeys : createMined(call, n)
    \/ refresh
    \/ \E call \in flights.refreshes : refreshCounted(call)
    \/ \E call \in flights.refreshes :
            \E order \in SettleOrders(call.count - start(call.count)) : refreshDone(call, order)
    \/ ui.ledgerKeyAddress = NoKey /\ unlockLedger
    \/ \E attempt \in flights.unlocks : signTypedData(attempt, TRUE)
    \/ \E attempt \in flights.unlocks :
            \E response \in Reveals(attempt.handle, attempt.user) :
                /\ response.ok
                /\ userDecrypt(attempt, response)
    \/ typeMessage
    \/ StoreEnabled /\ storeMessage
    \/ \E call \in flights.stores : storeMined(call)

SpecButtons == Init /\ [][NextButtons]_vars

\* the session alone, over the days the authorization was signed for
NextSession ==
    \/ \E n \in 1..MaxKeys : CreateWithKey(n) /\ UNCHANGED client
    \/ refresh
    \/ \E call \in flights.refreshes : refreshCounted(call)
    \/ \E call \in flights.refreshes :
            \E order \in SettleOrders(call.count - start(call.count)) : refreshDone(call, order)
    \/ unlockLedger
    \/ \E attempt \in flights.unlocks, approved \in BOOLEAN : signTypedData(attempt, approved)
    \/ \E attempt \in flights.unlocks :
            \E response \in Reveals(attempt.handle, attempt.user) :
                userDecrypt(attempt, response)
    \/ lockLedger
    \/ Tick

SpecSession == Init /\ [][NextSession]_vars

\* ----------------------------------------------------------- the listing
\* the owner fills the pouch from outside the component and reads it through
\* the component
NextListing ==
    \/ \E n \in 1..MaxKeys : CreateWithKey(n) /\ UNCHANGED client
    \/ \E ciphertext \in TaskCiphertexts :
            /\ Len(_pouch[LedgerOwner]) < MaxListed
            /\ StoreEntryTask(ciphertext)
            /\ UNCHANGED client
    \/ refresh
    \/ \E call \in flights.refreshes : refreshCounted(call)
    \/ \E call \in flights.refreshes :
            \E order \in SettleOrders(call.count - start(call.count)) : refreshDone(call, order)
    \/ unlockLedger
    \/ \E attempt \in flights.unlocks : signTypedData(attempt, TRUE)
    \/ \E attempt \in flights.unlocks :
            \E response \in Reveals(attempt.handle, attempt.user) :
                userDecrypt(attempt, response)
    \/ \E batch \in flights.batches, engine \in Engines :
            \E order \in SettleOrders(Len(batch.entries)) : BatchDone(batch, engine, order)

SpecListing == Init /\ [][NextListing]_vars

\* ------------------------------------------------------- session properties
Locked == ui.ledgerKeyAddress = NoKey

NoDecryptedEntry == \A i \in 1..Len(ui.entries) : ~IsDecrypted(ui.entries[i])

\* C17: the Lock action leaves the session without the clear key and cancels
\* every decryption batch in flight, and a session without the key shows no
\* plaintext and no decrypt error on any loaded entry, whenever the batches
\* that were in flight complete
C17_LockDiscards ==
    /\ [](Locked => NoDecryptedEntry)
    /\ [][lockLedger => (Locked' /\ NoDecryptedEntry'
                          /\ \A batch \in flights'.batches : batch.cancelled)]_vars

\* Lock was pressed while a batch was in flight; the entries stay undecrypted
C17_Witness ==
    /\ Locked
    /\ ui.status = "Ledger locked."
    /\ Len(ui.entries) > 0
    /\ \E batch \in flights.batches : batch.cancelled

\* the authorization behind the key held has run out
Expired == clock > journal.validFrom + DurationDays

\* C18 as stated: the key is never held after the validity window of the
\* authorization used to unlock has expired
C18_KeyNeverHeldAfterExpiry == ~Locked => ~Expired

\* C18: the passing of time changes nothing in the session; the key is given
\* up only by Lock or by a refresh that finds no ledger, so it is still held
\* after the validity window has expired
C18_KeyHeldUntilLock ==
    [][/\ clock' # clock => (ui' = ui /\ flights' = flights)
       /\ (~Locked /\ Locked') => (ui'.status = "Ledger locked." \/ ~ui'.hasLedger)]_vars

C18_Witness == ~Locked /\ Expired

\* C19: storeMessage called while no key is held reports 'Unlock your ledger
\* key first.', starts no store (nothing is encrypted, no storeEntry
\* transaction is sent) and leaves the ledger as it was
C19_StoreWithoutKeyRejected ==
    [][(storeMessage /\ Locked) =>
          /\ ui'.error = "Unlock your ledger key first."
          /\ flights'.stores = flights.stores
          /\ ui'.isStoring = ui.isStoring
          /\ ui'.message = ui.message
          /\ chain' = chain]_vars

\* a typed message is still in the box, the session is locked, and the call
\* was turned down
C19_Witness ==
    /\ Locked
    /\ ui.message # <<>>
    /\ ui.error = "Unlock your ledger key first."
    /\ flights.stores = {}

\* a step in which an unlock attempt fails: the signature is declined, the
\* reveal is refused, or the revealed value is no address
UnlockFails ==
    \E attempt \in flights.unlocks :
        \/ signTypedData(attempt, FALSE)
        \/ \E response \in Reveals(attempt.handle, attempt.user) :
              /\ ~response.ok \/ ~ADDRESS_RE(response.value)
              /\ userDecrypt(attempt, response)

\* C20: when an unlock attempt of a locked session fails, the session stays
\* locked, the error is shown, isUnlocking is false again, the ledger is as
\* it was, and no unlock attempt is in flight
C20_FailedUnlockStaysLocked ==
    [][(UnlockFails /\ Locked) =>
          /\ Locked'
          /\ ui'.error # ""
          /\ ~ui'.isUnlocking
          /\ flights'.unlocks = {}
          /\ chain' = chain]_vars

C20_Witness ==
    /\ Locked
    /\ ui.error = "Relayer error"
    /\ ~ui.isUnlocking
    /\ flights.unlocks = {}
    /\ ui.hasLedger

\* --------------------------------------------------- more than one account
\* task:silent-ledger:create-ledger run by `owner` with --key set to clear key n
CreateLedgerTask(owner, n) ==
    /\ Mined(createLedger(owner, createEncryptedInput(owner, n)))
    /\ UNCHANGED journal

\* the wallet switches to another account: useAccount gives the new address,
\* the refresh callback is made anew and the effect that depends on it calls
\* it; every useState keeps its value
accountsChanged(owner) ==
    /\ owner # ui.address
    /\ ui' = [clearMessages(ui) EXCEPT !.address = owner, !.isRefreshing = TRUE]
    /\ flights' = [flights EXCEPT !.refreshes =
                       @ \cup {[refreshCall("") EXCEPT !.owner = owner]}]
    /\ UNCHANGED <<chain, cipherRun, journal, clock>>

\* two owners, each with a ledger under a key of their own, at one browser:
\* the wallet switches from the first to the second
NextAccounts ==
    \/ \E owner \in Owners :
            /\ CreateLedgerTask(owner, IF owner = LedgerOwner THEN 1 ELSE MaxKeys)
            /\ UNCHANGED client
    \/ \E owner \in Owners : ui.address = LedgerOwner /\ accountsChanged(owner)
    \/ refresh
    \/ \E call \in flights.refreshes : refreshCounted(call)
    \/ \E call \in flights.refreshes :
            \E order \in SettleOrders(call.count - start(call.count)) : refreshDone(call, order)
    \/ ui.ledgerKeyAddress = NoKey /\ unlockLedger
    \/ \E attempt \in flights.unlocks : signTypedData(attempt, TRUE)
    \/ \E attempt \in flights.unlocks :
            \E response \in Reveals(attempt.handle, attempt.user) :
                /\ response.ok
                /\ userDecrypt(attempt, response)
    \/ typeMessage
    \/ StoreEnabled /\ storeMessage
    \/ \E call \in flights.stores : storeMined(call)

SpecAccounts == Init /\ [][NextAccounts]_vars

\* ------------------------------------------------- a pouch past the window
MaxPouch == 27      \* entries in the pouch of the owner

Digits == <<"0", "1", "2", "3", "4", "5", "6", "7", "8", "9">>

\* the string the owner stores as entry k: the number k in two digits
Numeral(k) == <<Digits[((k \div 10) % 10) + 1], Digits[(k % 10) + 1]>>

\* the owner stores entry after entry through the task and reads the pouch
\* through the component
NextWindow ==
    \/ \E n \in 1..MaxKeys : CreateWithKey(n) /\ UNCHANGED client
    \/ /\ Len(_pouch[LedgerOwner]) < MaxPouch
       /\ StoreEntryTask(Numeral(Len(_pouch[LedgerOwner])))
       /\ UNCHANGED client
    \/ refresh
    \/ \E call \in flights.refreshes : refreshCounted(call)
    \/ \E call \in flights.refreshes :
            \E order \in SettleOrders(call.count - start(call.count)) : refreshDone(call, order)

SpecWindow == Init /\ [][NextWindow]_vars

\* ------------------------------------------------------ listing properties
\* what the list shows for an entry while a key is held: the callout with the
\* failure reason when decryptError is truthy, else the plaintext when that is
\* truthy, else "Decrypting..."
ShowsFailure(entry) == entry.decryptError \notin {NoError, ""}

ShowsPlaintext(entry) == ~ShowsFailure(entry) /\ entry.plaintext \notin {Undefined, <<>>}

\* the list as rendered: entries.slice().reverse()
Displayed(entries) == [i \in 1..Len(entries) |-> entries[Len(entries) + 1 - i]]

\* C21: when a decryption batch lands, every entry of it whose ciphertext
\* does not decrypt under the held key carries its own failure reason, every
\* other entry carries its own plaintext, and no entry is left without either
\* because a sibling failed
C21_EachEntryOwnOutcome ==
    [][\A batch \in flights.batches, engine \in Engines :
          \A order \in SettleOrders(Len(batch.entries)) :
              BatchDone(batch, engine, order) /\ ~batch.cancelled
              => /\ Len(ui'.entries) = Len(batch.entries)
                 /\ \A i \in 1..Len(batch.entries) :
                       LET result == decryptWithAddressKey(batch.entries[i].ciphertext,
                                                           batch.key)
                       IN  /\ ui'.entries[i].index = batch.entries[i].index
                           /\ IsDecrypted(batch.entries[i])
                              \/ IF result.ok
                                 THEN /\ ui'.entries[i].plaintext = result.value
                                      /\ ui'.entries[i].decryptError = NoError
                                 ELSE /\ ShowsFailure(ui'.entries[i])
                                      /\ ui'.entries[i].plaintext = Undefined]_vars

\* the part of C21 about siblings: an entry that decrypts gets its plaintext
\* whatever happens to the others, and an entry that fails gets the message
\* of its own error
SiblingsIndependent ==
    [][\A batch \in flights.batches, engine \in Engines :
          \A order \in SettleOrders(Len(batch.entries)) :
              BatchDone(batch, engine, order) /\ ~batch.cancelled
              => \A i \in 1..Len(batch.entries) :
                    LET result == decryptWithAddressKey(batch.entries[i].ciphertext,
                                                        batch.key)
                    IN  IsDecrypted(batch.entries[i])
                        \/ IF result.ok
                           THEN ui'.entries[i].plaintext = result.value
                           ELSE ui'.entries[i].decryptError
                                    = ErrorMessage(result.error, engine)]_vars

Ascending(list) == \A i, j \in 1..Len(list) : i < j => list[i].index < list[j].index

Descending(list) == \A i, j \in 1..Len(list) : i < j => list[i].index > list[j].index

\* C22 as stated: the list the component holds and the list it displays are
\* both in ascending index order
C22_DisplayedAscending == Ascending(ui.entries) /\ Ascending(Displayed(ui.entries))

\* C22: whatever the order the reads and the decryptions settle in, the list
\* the component holds runs through consecutive indices in ascending order,
\* and the list it displays is that list from its end: descending, the newest
\* entry first
C22_HeldAscendingShownNewestFirst ==
    /\ \A i \in 1..Len(ui.entries) : ui.entries[i].index = ui.entries[1].index + i - 1
    /\ Ascending(ui.entries)
    /\ Descending(Displayed(ui.entries))
    /\ \A i \in 1..Len(ui.entries) :
          Displayed(ui.entries)[i].index = ui.entries[Len(ui.entries)].index - (i - 1)

\* two entries were read and decrypted, one to a plaintext and one to a failure
C22_Witness ==
    /\ Len(ui.entries) >= 2
    /\ \E i, j \in 1..Len(ui.entries) :
          /\ ui.entries[i].plaintext # Undefined
          /\ ui.entries[j].decryptError # NoError

\* ------------------------------------------------------- store properties
\* the strings encryptWithAddressKey gives for the messages of the owner
CipherOutputs ==
    {encryptWithAddressKey(trim(Messages[m]), addressKey, iv).value :
        m \in 1..Len(Messages), addressKey \in ClearKeys, iv \in Nonces}

\* C23 as stated: every string in the pouch of the owner, whichever client of
\* the repository handed it to storeEntry, came out of encryptWithAddressKey
C23_EveryStoredStringIsCipherOutput ==
    \A i \in 1..Len(_pouch[LedgerOwner]) :
        _pouch[LedgerOwner][i].ciphertext \in CipherOutputs

\* C23: the component hands storeEntry nothing but the output of
\* encryptWithAddressKey for the trimmed message under the clear key the
\* session held when Store was pressed, never the message or the key; and
\* what it asks the reveal service carries the handle, the ephemeral pair, the
\* signature, the scope, the account and the times, and nothing else
C23_ComponentStoresCipherOutput ==
    /\ [][\A new \in flights'.stores \ flights.stores :
              /\ new.key = ui.ledgerKeyAddress
              /\ new.key \in ClearKeys
              /\ new.message = trim(ui.message)]_vars
    /\ [][\A call \in flights.stores :
              storeMined(call) /\ _pouch' # _pouch
              => LET ciphertext == encryptWithAddressKey(
                                       call.message, call.key,
                                       Nonce(Len(journal.written) + 1)).value
                 IN  /\ _pouch' = [_pouch EXCEPT ![call.owner] =
                                      Append(@, PouchEntry(now, ciphertext))]
                     /\ ciphertext \notin {call.message, call.key}
                     /\ decryptWithAddressKey(ciphertext, call.key).ok]_vars
    /\ [](\A attempt \in flights.unlocks :
              attempt.request
                  \in {NoRequest,
                       userDecryptRequest(attempt,
                                          strip0x(Signature(attempt.user, attempt.eip712)))})

\* the component stored an entry
C23_Witness ==
    /\ Len(journal.written) >= 1
    /\ \E i \in 1..Len(_pouch[LedgerOwner]) :
          _pouch[LedgerOwner][i].ciphertext \in CipherOutputs

Min(S) == CHOOSE x \in S : \A y \in S : x <= y

\* C24: a refresh that read the count n and completes loads the indices
\* max(0, n - 25) .. n - 1, each once and in this order, min(n, 25) entries in
\* all, each with the createdAt and the ciphertext the ledger holds at its
\* index; n is the number of entries the ledger held when the count was read;
\* and a refresh that finds no ledger loads nothing
C24_LoadsLatestWindow ==
    [][\A call \in flights.refreshes :
          /\ \A order \in SettleOrders(call.count - start(call.count)) :
                refreshDone(call, order)
                => /\ Len(ui'.entries) = Min({call.count, 25})
                   /\ \A i \in 1..Len(ui'.entries) :
                         LET index == Max({0, call.count - 25}) + i - 1
                         IN  /\ ui'.entries[i].index = index
                             /\ ui'.entries[i].createdAt
                                    = _pouch[call.owner][index + 1].createdAt
                             /\ ui'.entries[i].ciphertext
                                    = _pouch[call.owner][index + 1].ciphertext
                             /\ ui'.entries[i].ciphertext = Numeral(index)
          /\ refreshCounted(call)
             => IF _hasLedger[call.owner]
                THEN /\ ui'.entryCount = Len(_pouch[call.owner])
                     /\ \E next \in flights'.refreshes :
                           next.count = Len(_pouch[call.owner])
                ELSE /\ ui'.entries = <<>>
                     /\ ui'.entryCount = 0
                     /\ flights'.refreshes = flights.refreshes \ {call}]_vars

\* a refresh of a pouch of more than 25 entries has completed: the list
\* holds 25 entries and does not start at index 0
C24_Witness ==
    /\ ui.entryCount > 25
    /\ ~ui.isRefreshing
    /\ Len(ui.entries) = 25
    /\ ui.entries[1].index = ui.entryCount - 25
    /\ ui.entries[1].index > 0

\* ------------------------------------------------------- unlock properties
\* C25: a revealed value that is not 0x followed by 40 hex digits is turned
\* down with the error for malformed key material: the key the session held
\* before (none, or the key of an earlier unlock) is what it holds after,
\* and whatever the session holds is a well-formed address
C25_MalformedRevealRejected ==
    /\ [](ui.ledgerKeyAddress = NoKey \/ ADDRESS_RE(ui.ledgerKeyAddress))
    /\ [][\A attempt \in flights.unlocks :
              \A response \in Reveals(attempt.handle, attempt.user) :
                  response.ok /\ ~ADDRESS_RE(response.value)
                  /\ userDecrypt(attempt, response)
                  => /\ ui'.ledgerKeyAddress = ui.ledgerKeyAddress
                     /\ ui'.ledgerKeyAddress # response.value
                     /\ ui'.error = "Unexpected decrypted key type."
                     /\ ui'.status = ui.status
                     /\ ~ui'.isUnlocking
                     /\ ui'.entries = ui.entries]_vars

\* a malformed value came back to a session that held a key, and to one that
\* held none
C25_Witness ==
    /\ ui.error = "Unexpected decrypted key type."
    /\ ui.ledgerKeyAddress \in ClearKeys
    /\ journal.keypairs > 1

C25_WitnessLocked ==
    /\ ui.error = "Unexpected decrypted key type."
    /\ ui.ledgerKeyAddress = NoKey

\* C26: every unlock attempt gets a key pair no earlier attempt had; the
\* reveal is asked for only by an attempt that holds the signature over its
\* typed message; the request carries the public key, the scope (the contract
\* address alone), the start timestamp and the 10 days of that message; and
\* the session takes a key only from the answer to such a request, after the
\* answer passed the address check
C26_UnlockProtocolOrder ==
    /\ [][\A new \in flights'.unlocks \ flights.unlocks :
              new.step = "signTypedData"
              => /\ new.keypair \notin {generateKeypair(k) : k \in 1..journal.keypairs}
                 /\ new.keypair \in {generateKeypair(k) : k \in 1..journal'.keypairs}
                 /\ new.eip712.publicKey = new.keypair.publicKey
                 /\ new.request = NoRequest]_vars
    /\ [](\A attempt \in flights.unlocks :
              IF attempt.step = "signTypedData" THEN attempt.request = NoRequest
              ELSE /\ attempt.request.signature
                          = strip0x(Signature(attempt.user, attempt.eip712))
                   /\ attempt.request.publicKey = attempt.eip712.publicKey
                   /\ attempt.request.publicKey = attempt.keypair.publicKey
                   /\ attempt.request.privateKey = attempt.keypair.privateKey
                   /\ attempt.request.contractAddresses = attempt.eip712.contractAddresses
                   /\ attempt.request.contractAddresses = <<ContractAddress>>
                   /\ attempt.request.handles[1].contractAddress = ContractAddress
                   /\ attempt.request.startTimeStamp = attempt.eip712.startTimeStamp
                   /\ attempt.request.durationDays = attempt.eip712.durationDays
                   /\ attempt.request.durationDays = 10)
    /\ [][ui'.ledgerKeyAddress # ui.ledgerKeyAddress /\ ui'.ledgerKeyAddress # NoKey
          => \E attempt \in flights.unlocks \ flights'.unlocks :
                /\ attempt.step = "userDecrypt"
                /\ attempt.request # NoRequest
                /\ ADDRESS_RE(ui'.ledgerKeyAddress)
                /\ Value(ui'.ledgerKeyAddress)
                       \in Reveals(attempt.request.handles[1].handle,
                                   attempt.request.user)]_vars

\* a second attempt, signed some days after the first, unlocked the session,
\* and a third one signed later still is waiting for its reveal
C26_Witness ==
    /\ ui.ledgerKeyAddress \in ClearKeys
    /\ journal.keypairs >= 2
    /\ journal.validFrom > 0

C26_WitnessPending ==
    \E attempt \in flights.unlocks :
        /\ attempt.step = "userDecrypt"
        /\ attempt.eip712.startTimeStamp < clock

\* an attempt that began in a session holding a key finds the session without
\* one: Lock was pressed, or a refresh found no ledger, while it was pending
Abandoned(attempt) == attempt.heldAtStart # NoKey /\ ui.ledgerKeyAddress = NoKey

\* C27: when the session was locked while an unlock attempt was waiting for
\* the signature or for the reveal, the completion of that attempt leaves the
\* session without a key
C27_AbandonedUnlockLeavesNoKey ==
    [][\A attempt \in flights.unlocks :
          \A response \in Reveals(attempt.handle, attempt.user) :
              Abandoned(attempt) /\ userDecrypt(attempt, response)
              => ui'.ledgerKeyAddress = NoKey]_vars

\* ------------------------------------------------------ account properties
\* the clear key is what the reveal of the key handle of `owner` gives
KeyOf(owner, addressKey) ==
    /\ _hasLedger[owner]
    /\ addressKey = userDecryptEaddress(_ledgerKey[owner])

\* C28: a key the session holds is the key behind the handle of the account
\* the wallet is connected with, and a message is encrypted and stored for an
\* account only under the key of that account
C28_KeyOfConnectedOwner ==
    /\ ui.ledgerKeyAddress # NoKey => KeyOf(ui.address, ui.ledgerKeyAddress)
    /\ \A call \in flights.stores : KeyOf(call.owner, call.key)

\* the entries of one owner under the key of the other: the pouch of the
\* connected account got an entry encrypted under the key of the account the
\* wallet was connected with before
StoredUnderForeignKey ==
    \E owner \in Owners :
        \E i \in 1..Len(_pouch[owner]) :
            /\ ~decryptWithAddressKey(_pouch[owner][i].ciphertext,
                                      userDecryptEaddress(_ledgerKey[owner])).ok
            /\ \E other \in Owners \ {owner} :
                  _hasLedger[other]
                  /\ decryptWithAddressKey(_pouch[owner][i].ciphertext,
                                           userDecryptEaddress(_ledgerKey[other])).ok

\* ------------------------------------------------ causes of a failed decryption
\* a produced string, unchanged, decrypted under another well-formed key
WrongKeyRun ==
    /\ cipherRun.stage = "decrypted"
    /\ cipherRun.produced # <<>>
    /\ cipherRun.changed = 0
    /\ cipherRun.usedKey \in ClearKeys \ {cipherRun.addressKey}

\* a produced string with one character of its nonce field or of its
\* ciphertext field changed, decrypted under the key it was made with
CorruptedFieldRun ==
    /\ SameKeyRun
    /\ cipherRun.changed # 0
    /\ cipherRun.changed \notin TagOrSeparator(cipherRun.produced)

C29_WitnessNonce ==
    /\ CorruptedFieldRun
    /\ cipherRun.changed < 10
    /\ DecryptionFailed(cipherRun.result)

\* a change that left a field no base64 failed in another way
C29_WitnessEncoding ==
    /\ CorruptedFieldRun
    /\ cipherRun.result.error = "InvalidCharacterError"

\* ------------------------------------------------------- button properties
\* C30: a click on Create Ledger or on Store leads to at most one
\* transaction: while its handler is in flight the flag of its kind is set
\* and the button is disabled, so no second handler of the kind starts; the
\* handler sends one createLedger or one storeEntry and is over, whether the
\* transaction succeeds or reverts; and the ledger changes in no other step
C30_OneTransactionPerClick ==
    /\ [](/\ Cardinality(flights.creates) <= 1
          /\ Cardinality(flights.stores) <= 1
          /\ flights.creates # {} => ui.isCreating /\ ~CreateEnabled
          /\ flights.stores # {} => ui.isStoring /\ ~StoreEnabled
          /\ Len(_pouch[LedgerOwner]) = Len(journal.written))
    /\ [][\A call \in flights.creates, n \in 1..MaxKeys :
              createMined(call, n)
              => /\ flights'.creates = flights.creates \ {call}
                 /\ flights'.stores = flights.stores
                 /\ _pouch' = _pouch
                 /\ \/ storage' = storage /\ ui'.error # "" /\ ~ui'.isCreating
                    \/ /\ ~_hasLedger[call.owner]
                       /\ _hasLedger' = [_hasLedger EXCEPT ![call.owner] = TRUE]]_vars
    /\ [][\A call \in flights.stores :
              storeMined(call)
              => /\ flights'.stores = flights.stores \ {call}
                 /\ flights'.creates = flights.creates
                 /\ _hasLedger' = _hasLedger
                 /\ \/ storage' = storage /\ ui'.error # "" /\ ~ui'.isStoring
                    \/ \E ciphertext \in CipherOutputs :
                          _pouch' = [_pouch EXCEPT ![call.owner] =
                                        Append(@, PouchEntry(now, ciphertext))]]_vars
    /\ [][storage' # storage
          => \/ flights'.creates # flights.creates
             \/ flights'.stores # flights.stores]_vars

\* a store went through and its handler is over; a second click on Create
\* Ledger ended with the revert shown
C30_Witness ==
    /\ Len(journal.written) >= 1
    /\ flights.stores = {}
    /\ ~ui.isStoring

C30_WitnessRevert ==
    /\ _hasLedger[LedgerOwner]
    /\ flights.creates = {}
    /\ ~ui.isCreating
    /\ ui.error = "LedgerAlreadyExists"

\* ---------------------------------------------------------------------
\* C31  Every successful mutating call emits exactly one notification naming
\*      the caller as owner, and a failing call emits none: createLedger
\*      emits LedgerCreated(owner), rotateLedgerKey LedgerKeyRotated(owner),
\*      storeEntry EntryStored(owner, index) with index the entry count
\*      before the append, where getEntry then returns the new entry.
\* ---------------------------------------------------------------------
NotificationOf(r, index) ==
    CASE r.tx.op = "createLedger" -> LedgerCreated(r.tx.sender)
      [] r.tx.op = "rotateLedgerKey" -> LedgerKeyRotated(r.tx.sender)
      [] r.tx.op = "storeEntry" -> EntryStored(r.tx.sender, index)

C31_OneNotificationPerSuccess ==
    /\ [](\A i \in Indices :
            LET r == receipts[i]
            IN  /\ ~Succeeded(r) => r.logs = <<>>
                /\ Succeeded(r) =>
                      /\ Len(r.logs) = 1
                      /\ r.logs[1].owner = r.tx.sender
                      /\ r.logs[1] = NotificationOf(r, r.logs[1].index))
    /\ [][Processed =>
            LET r == receipts'[Len(receipts')]
                owner == r.tx.sender
            IN  (Succeeded(r) /\ r.tx.op = "storeEntry") =>
                    /\ r.logs = <<EntryStored(owner, getEntryCount(owner))>>
                    /\ Len(_pouch'[owner]) = getEntryCount(owner) + 1
                    /\ _pouch'[owner][r.logs[1].index + 1] =
                           PouchEntry(now', r.tx.ciphertext)]_vars

\* a second entry was stored: its notification carries index 1
C31_Witness ==
    \E i \in Indices : /\ Succeeded(receipts[i])
                       /\ receipts[i].tx.op = "storeEntry"
                       /\ receipts[i].logs = <<EntryStored(receipts[i].tx.sender, 1)>>

\* a call failed after a ledger was created and an entry stored
C31_WitnessFailure ==
    /\ \E i \in Indices : ~Succeeded(receipts[i])
    /\ \E i \in Indices : receipts[i].logs # <<>> /\ receipts[i].logs[1].name = "EntryStored"

\* ---------------------------------------------------------------------
\* C32  In every reachable ledger state an owner has entries only if that
\*      owner has a ledger, and the stored key handle of an owner is
\*      non-default only if that owner has a ledger.
\* ---------------------------------------------------------------------
C32_EntriesAndKeyOnlyWithLedger ==
    \A o \in Owners :
        /\ getEntryCount(o) > 0 => hasLedger(o)
        /\ _ledgerKey[o] # ZeroHash => hasLedger(o)

\* one owner has a ledger with a key and an entry, another owner has called
\* storeEntry and rotateLedgerKey without a ledger and has neither
C32_Witness ==
    \E o, p \in Owners :
        /\ hasLedger(o) /\ getEntryCount(o) > 0 /\ _ledgerKey[o] # ZeroHash
        /\ ~hasLedger(p)
        /\ \E i \in Indices : receipts[i].tx.sender = p /\ ~Succeeded(receipts[i])

\* ---------------------------------------------------------------------
\* The session of the owner while the owner rotates the ledger key with a
\* rotateLedgerKey call made outside the component.
\* ---------------------------------------------------------------------
NextRekey ==
    \/ \E n \in 1..MaxKeys : CreateWithKey(n) /\ UNCHANGED client
    \/ \E n \in 1..MaxKeys : RotateToKey(n) /\ UNCHANGED client
    \/ refresh
    \/ \E call \in flights.refreshes : refreshCounted(call)
    \/ \E call \in flights.refreshes :
            \E order \in SettleOrders(call.count - start(call.count)) : refreshDone(call, order)
    \/ ui.ledgerKeyAddress = NoKey /\ unlockLedger
    \/ \E attempt \in flights.unlocks : signTypedData(attempt, TRUE)
    \/ \E attempt \in flights.unlocks :
            \E response \in Reveals(attempt.handle, attempt.user) :
                /\ response.ok
                /\ userDecrypt(attempt, response)
    \/ typeMessage
    \/ StoreEnabled /\ storeMessage
    \/ \E call \in flights.stores : storeMined(call)

SpecRekey == Init /\ [][NextRekey]_vars

\* the component has read the handle the ledger now holds and no refresh is
\* under way
Refreshed ==
    /\ flights.refreshes = {}
    /\ ui.hasLedger
    /\ ui.encryptedLedgerKey = _ledgerKey[LedgerOwner]

\* C33: whenever the session is unlocked and the component has refreshed, the
\* clear key it holds is the key behind the owner's current on-chain handle,
\* and an entry it stores from such a state is encrypted under that key
C33_SessionKeyIsCurrentKey ==
    /\ [](ui.ledgerKeyAddress # NoKey /\ Refreshed
            => ui.ledgerKeyAddress = userDecryptEaddress(_ledgerKey[LedgerOwner]))
    /\ [][(Refreshed /\ flights'.stores # flights.stores)
            => \A call \in flights'.stores \ flights.stores :
                   call.key = userDecryptEaddress(_ledgerKey[LedgerOwner])]_vars

\* an entry written after a rotation under the key rotated away from, by a
\* session that had refreshed
C33_StoredUnderPriorKey ==
    /\ Len(journal.keys) = 2 /\ PriorKey # CurrentKey
    /\ \E i \in 1..Len(journal.written) :
          /\ journal.written[i].generation = 2
          /\ journal.written[i].key = PriorKey

\* ---------------------------------------------------------------------
\* The listing over time. The owner clicks Refresh only while every entry
\* shown is decrypted, so the clicks of the owner never keep a list from
\* settling. A read of the chain returns, a mined transaction is reported and
\* a promise that can resolve does: the steps that complete a call in flight
\* are taken once they can be.
\* ---------------------------------------------------------------------
Unlocked == ui.ledgerKeyAddress # NoKey

SomeUndecrypted == \E i \in 1..Len(ui.entries) : ~IsDecrypted(ui.entries[i])

NextListed ==
    \/ \E n \in 1..MaxKeys : CreateWithKey(n) /\ UNCHANGED client
    \/ /\ Len(_pouch[LedgerOwner]) < MaxListed - 1
       /\ StoreEntryTask(encryptWithAddressKey(Hello, ClearKey(1), Nonce(1)).value)
       /\ UNCHANGED client
    \/ ~SomeUndecrypted /\ refresh
    \/ \E call \in flights.refreshes : refreshCounted(call)
    \/ \E call \in flights.refreshes :
            \E order \in SettleOrders(call.count - start(call.count)) : refreshDone(call, order)
    \/ ui.ledgerKeyAddress = NoKey /\ unlockLedger
    \/ \E attempt \in flights.unlocks : signTypedData(attempt, TRUE)
    \/ \E attempt \in flights.unlocks :
            \E response \in Reveals(attempt.handle, attempt.user) :
                /\ response.ok
                /\ userDecrypt(attempt, response)
    \/ \E batch \in flights.batches, engine \in Engines :
            \E order \in SettleOrders(Len(batch.entries)) : BatchDone(batch, engine, order)
    \/ typeMessage
    \/ StoreEnabled /\ storeMessage
    \/ \E call \in flights.stores : storeMined(call)

ReadsReturn == \E call \in flights.refreshes : refreshCounted(call)

EntriesReturn ==
    \E call \in flights.refreshes :
        \E order \in SettleOrders(call.count - start(call.count)) : refreshDone(call, order)

RevealReturns ==
    \E attempt \in flights.unlocks :
        \E response \in Reveals(attempt.handle, attempt.user) :
            /\ response.ok
            /\ userDecrypt(attempt, response)

BatchResolves ==
    \E batch \in flights.batches, engine \in Engines :
        \E order \in SettleOrders(Len(batch.entries)) : BatchDone(batch, engine, order)

StoreReturns == \E call \in flights.stores : storeMined(call)

\* weak fairness of every kind of completion. BatchResolves is enabled
\* exactly while a batch is in flight and StoreReturns exactly while a store
\* is, and their weak fairness is written out with these conditions
SpecListed ==
    /\ Init /\ [][NextListed]_vars
    /\ WF_vars(ReadsReturn)
    /\ WF_vars(EntriesReturn)
    /\ WF_vars(RevealReturns)
    /\ (<>[](flights.batches # {}) => []<><<BatchResolves>>_vars)
    /\ (<>[](flights.stores # {}) => []<><<StoreReturns>>_vars)

\* C34: while the session stays unlocked, every entry a refresh has loaded
\* eventually carries a plaintext or a decrypt error
C34_LoadedEntriesEventuallyDecrypted ==
    (Unlocked /\ SomeUndecrypted) ~> (~Unlocked \/ ~SomeUndecrypted)

\* nothing is in flight, the session is unlocked, and an entry of the list is
\* still undecrypted
C34_StuckUndecrypted ==
    /\ Unlocked /\ SomeUndecrypted
    /\ flights.refreshes = {} /\ flights.batches = {}
    /\ flights.stores = {} /\ flights.unlocks = {}

\* ---------------------------------------------------------------------
\* C35  The loaded entry list always reflects the most recent completed
\*      refresh: the completion of a decryption batch that was started on an
\*      older list never replaces a newer list written by a later refresh.
\* ---------------------------------------------------------------------
\* what a refresh loaded of a list: the entries without what decryption added
AsLoaded(entries) ==
    [i \in 1..Len(entries) |->
        Entry(entries[i].index, entries[i].createdAt, entries[i].ciphertext)]

\* the step is the completion of a decryption batch
BatchCompletes ==
    \E batch \in flights.batches : flights' = [flights EXCEPT !.batches = @ \ {batch}]

C35_BatchKeepsLoadedList ==
    [][BatchCompletes => AsLoaded(ui'.entries) = AsLoaded(ui.entries)]_vars

\* a batch is still in flight that was started on a list shorter than the
\* list the latest refresh loaded
C35_LateBatch ==
    \E batch \in flights.batches :
        /\ ~batch.cancelled
        /\ flights.refreshes = {}
        /\ Len(batch.entries) < Len(ui.entries)

\* the list is shorter than the count the same refresh read: an entry the
\* refresh loaded is gone
C35_EntryLost ==
    /\ flights.refreshes = {} /\ flights.batches = {}
    /\ Len(ui.entries) < Min({ui.entryCount, MaxLoaded})

\* ---------------------------------------------------------------------
\* The cipher handed a produced wire string with further ':'-separated
\* content after its third field.
\* ---------------------------------------------------------------------
\* what follows the added separator: nothing, a character outside base64, a
\* version tag, a run of base64 characters
Suffixes == {<<>>, <<"!">>, VersionTag, <<"A", "A", "A", "A">>}

\* the produced string reaches decryption with ':' and a suffix added
Extend(suffix) ==
    /\ cipherRun.stage = "encrypted"
    /\ cipherRun.payload = cipherRun.produced
    /\ cipherRun' = [cipherRun EXCEPT !.payload = @ \o <<":">> \o suffix,
                                      !.changed = Len(cipherRun.produced) + 1]
    /\ UNCHANGED <<chain, journal, client>>

NextWire ==
    \/ \E plaintext \in Plaintexts, addressKey \in ClearKeys, iv \in Nonces :
            Encrypt(plaintext, addressKey, iv)
    \/ \E suffix \in Suffixes : Extend(suffix)
    \/ \E addressKey \in ClearKeys : Decrypt(addressKey)

SpecWire == Init /\ [][NextWire]_vars

\* C36: decryptWithAddressKey accepts only strings of exactly three
\* ':'-separated fields: a string with further content after the third field
\* is rejected, not decrypted with that content ignored
C36_ExactlyThreeFieldsAccepted ==
    (cipherRun.stage = "decrypted" /\ cipherRun.result.ok)
        => Len(split(cipherRun.payload, ":")) = 3

\* a produced string with a fourth field decrypts to the plaintext that was
\* encrypted
C36_ExtraFieldIgnored ==
    /\ cipherRun.stage = "decrypted"
    /\ Len(split(cipherRun.payload, ":")) = 4
    /\ cipherRun.payload # cipherRun.produced
    /\ cipherRun.plaintext # <<>>
    /\ cipherRun.result.ok
    /\ cipherRun.result.value = cipherRun.plaintext

====
